---- MODULE Spec2Model ----
(***************************************************************************)
(* A model of playlist-mcp:                                                *)
(*   src/playlist_generator.py  PlaylistGenerator (create_playlist and its *)
(*                              helpers)                                   *)
(*   src/spotify_handler.py     SpotifyHandler (the catalog client)        *)
(*   src/mood_analyzer.py       MoodAnalyzer (initialize, analyze_query    *)
(*                              and its helpers)                           *)
(*   src/main.py                the MCP server and its tools               *)
(*                                                                         *)
(* Spec        one PlaylistGenerator over one SpotifyHandler, serving      *)
(*             create_playlist calls against a catalog whose calls may     *)
(*             fail.                                                       *)
(* SpecRepeat  the same program, without the Gemini model and against a    *)
(*             catalog that answers every call: the same request is        *)
(*             served twice.                                               *)
(* SpecDedup   _remove_duplicates applied to bounded track lists.          *)
(* SpecSelect  _curate_playlist (from its target count on) and             *)
(*             _simple_track_selection applied to bounded candidate lists. *)
(* SpecPlan    _generate_search_queries and _generate_fallback_queries     *)
(*             applied to prompts of every branch.                         *)
(* SpecReplan  _generate_search_queries applied several times to one       *)
(*             prompt.                                                     *)
(* SpecDuration  extract_duration applied to bounded query texts.          *)
(* SpecAnalyze one MoodAnalyzer whose classifiers may fail to load and     *)
(*             whose pipeline calls may raise, serving analyze_query.      *)
(* SpecServer  main.py: run_server and the authenticate, handle_callback   *)
(*             and generate_playlist tools over the module globals.        *)
(* SpecHandler one SpotifyHandler serving authenticate_with_code,          *)
(*             is_authenticated and search_tracks calls.                   *)
(***************************************************************************)
EXTENDS Integers, Sequences, FiniteSets, TLC

VARIABLES
    \* SpotifyHandler
    sp_client,          \* self.client is not None
    sp_token,           \* self.token is not None
    app_client,         \* self.app_client is not None
    \* PlaylistGenerator
    model,              \* self.model is not None (Gemini configured)
    \* the world outside the program
    catalog,            \* which catalog data the upstream service holds
    upstream,           \* "flaky": a call may raise; "reliable": none does
    playlists,          \* the playlists created on Spotify, with their tracks
    \* the running create_playlist call
    pc,                 \* its position
    prompt,
    duration_minutes,
    search_queries,     \* Step 2's list
    ok,                 \* per issued query: the catalog call did not raise
    all_tracks,
    unique_tracks,
    fb_issued,          \* the fallback queries issued so far
    fb_tracks,          \* what the fallback searches returned, concatenated
    selected_tracks,
    result,             \* what the call returned or raised
    \* finished calls
    runs,               \* per finished call: its request and its outcome
    runs_left,          \* calls still to be made
    \* a helper applied on its own (SpecDedup, SpecSelect)
    fn_tracks,          \* the track list passed
    fn_target,          \* target_count
    fn_model,           \* self.model is not None
    fn_resp,            \* what the Gemini model answers
    fn_called,          \* the helper has returned
    fn_ret,             \* its return value
    fn_text,            \* the str passed: a prompt, or a query text as its words
    fn_prev,            \* what the earlier calls of the helper returned
    \* MoodAnalyzer
    initialized,        \* self.initialized
    sentiment_pipeline, \* self.sentiment_pipeline is not None
    emotion_pipeline,   \* self.emotion_pipeline is not None
    language_pipeline,  \* self.language_pipeline is not None
    emoji_emotion_cache, \* self.emoji_emotion_cache
    \* main.py: the environment, the server, the module globals
    env_credentials,    \* SPOTIFY_CLIENT_ID and SPOTIFY_CLIENT_SECRET are set
    server,             \* the position of run_server
    cred,               \* cred is not None (scope is set with it)
    token,              \* the user token: 0 for None, else which token it is
    client,             \* tk.Spotify(token): 0 for None, else its token
    playlist_generator, \* the PlaylistGenerator: its spotify and client fields
    requests            \* the tool calls served so far

handler_vars == <<sp_client, sp_token, app_client>>
world_vars   == <<catalog, upstream, playlists>>
call_vars    == <<pc, prompt, duration_minutes, search_queries, ok, all_tracks,
                  unique_tracks, fb_issued, fb_tracks, selected_tracks, result>>
run_vars     == <<runs, runs_left>>
fn_vars      == <<fn_tracks, fn_target, fn_model, fn_resp, fn_called, fn_ret,
                  fn_text, fn_prev>>
analyzer_vars == <<initialized, sentiment_pipeline, emotion_pipeline,
                   language_pipeline, emoji_emotion_cache>>
server_vars  == <<env_credentials, server, cred, token, client, playlist_generator,
                  requests>>
vars         == <<handler_vars, model, world_vars, call_vars, run_vars, fn_vars,
                  analyzer_vars, server_vars>>

(***************************************************************************)
(* Bounds of the model.                                                    *)
(***************************************************************************)
MaxDedupLen == 3      \* longest track list given to _remove_duplicates
MaxCand     == 4      \* longest candidate list given to the selector
MaxTarget   == 3      \* largest target_count given to the selector
MaxTokens   == 2      \* most comma-separated items in a Gemini selection
MaxRuns     == 2      \* create_playlist calls in SpecRepeat

(***************************************************************************)
(* Sequences.                                                              *)
(***************************************************************************)
Min(a, b) == IF a <= b THEN a ELSE b
Max(a, b) == IF a >= b THEN a ELSE b

\* s[:n]
Take(s, n) == SubSeq(s, 1, Min(n, Len(s)))
\* s[n:]
Drop(s, n) == SubSeq(s, Min(n, Len(s)) + 1, Len(s))

Range(s) == {s[i] : i \in DOMAIN s}

\* the sequences of length at most n over S
SeqsUpTo(S, n) == UNION {[1..k -> S] : k \in 0..n}

RECURSIVE Concat(_)
\* the concatenation of a sequence of sequences
Concat(ss) == IF ss = <<>> THEN <<>> ELSE Head(ss) \o Concat(Tail(ss))

(***************************************************************************)
(* Strings. A Python string is a TLA+ string; Chars gives its characters   *)
(* for the strings the model uses, so that lower(), strip(), startswith()  *)
(* and the `in` substring test are computed on characters.                 *)
(***************************************************************************)
KnownStrings ==
    {"Night Drive", "trending songs", "popular music", "bollywood", "hindi", "indian",
     "pop", "rock", "hip hop", "electronic", "indie", "jazz", "country", "r&b",
     "happy", "upbeat", "energetic", "party", "sad", "emotional", "melancholy",
     "chill", "relax", "calm", "workout", "gym", "exercise",
     "", " ambient ", "ambient", "* top hits", "chill music", "- trending songs",
     "Song", "song ", "song", "Other", "other", "Artist", "ARTIST", "artist",
     "q1", "q2", "q3", "q4", "q5", "q6", "q7", "q8",
     "hour", "hr", "h", "minute", "min", "m", "track", "2", "5", "40", "songs",
     "minutes", "Hours", "hours", "marathi", "tracks", "playlist",
     "{heart_eyes}", "{sunglasses}", "{cry}", "great", "music", "tamil", "joy",
     "cheerful", "good", "amazing", "depressed", "down", "blue", "cry", "angry", "mad",
     "furious", "rage", "hate", "annoyed", "excited", "thrilled", "pumped", "peaceful",
     "serene", "quiet", "love", "romantic", "valentine", "date", "heart", "nostalgic",
     "memories", "old", "past", "remember", "bhojpuri", "{hindi:devanagari}",
     "english", "hollywood", "western", "punjabi", "{punjabi:gurmukhi}", "bengali",
     "bangla", "{bengali:bengali}", "{tamil:tamil}", "telugu", "{telugu:telugu}",
     "{marathi:devanagari}", "gujarati", "{gujarati:gujarati}", "spanish",
     "espa{n~}ol", "latino", "french", "fran{c,}ais", "korean", "k-pop", "kpop",
     "{korean:hangul}", "japanese", "j-pop", "jpop", "{japanese:kanji}", "sadness",
     "curiosity", "Love", "en", "fr", "de", "EN", "positive", "negative", "neutral",
     "   ", " abc ", "abc"}

CharsOf(s) ==
    CASE s = "Night Drive" -> <<"N", "i", "g", "h", "t", " ", "D", "r", "i", "v", "e">>
      [] s = "trending songs" -> <<"t", "r", "e", "n", "d", "i", "n", "g", " ", "s", "o", "n", "g", "s">>
      [] s = "popular music" -> <<"p", "o", "p", "u", "l", "a", "r", " ", "m", "u", "s", "i", "c">>
      [] s = "bollywood" -> <<"b", "o", "l", "l", "y", "w", "o", "o", "d">>
      [] s = "hindi" -> <<"h", "i", "n", "d", "i">>
      [] s = "indian" -> <<"i", "n", "d", "i", "a", "n">>
      [] s = "pop" -> <<"p", "o", "p">>
      [] s = "rock" -> <<"r", "o", "c", "k">>
      [] s = "hip hop" -> <<"h", "i", "p", " ", "h", "o", "p">>
      [] s = "electronic" -> <<"e", "l", "e", "c", "t", "r", "o", "n", "i", "c">>
      [] s = "indie" -> <<"i", "n", "d", "i", "e">>
      [] s = "jazz" -> <<"j", "a", "z", "z">>
      [] s = "country" -> <<"c", "o", "u", "n", "t", "r", "y">>
      [] s = "r&b" -> <<"r", "&", "b">>
      [] s = "happy" -> <<"h", "a", "p", "p", "y">>
      [] s = "upbeat" -> <<"u", "p", "b", "e", "a", "t">>
      [] s = "energetic" -> <<"e", "n", "e", "r", "g", "e", "t", "i", "c">>
      [] s = "party" -> <<"p", "a", "r", "t", "y">>
      [] s = "sad" -> <<"s", "a", "d">>
      [] s = "emotional" -> <<"e", "m", "o", "t", "i", "o", "n", "a", "l">>
      [] s = "melancholy" -> <<"m", "e", "l", "a", "n", "c", "h", "o", "l", "y">>
      [] s = "chill" -> <<"c", "h", "i", "l", "l">>
      [] s = "relax" -> <<"r", "e", "l", "a", "x">>
      [] s = "calm" -> <<"c", "a", "l", "m">>
      [] s = "workout" -> <<"w", "o", "r", "k", "o", "u", "t">>
      [] s = "gym" -> <<"g", "y", "m">>
      [] s = "exercise" -> <<"e", "x", "e", "r", "c", "i", "s", "e">>
      [] s = "" -> <<>>
      [] s = " ambient " -> <<" ", "a", "m", "b", "i", "e", "n", "t", " ">>
      [] s = "ambient" -> <<"a", "m", "b", "i", "e", "n", "t">>
      [] s = "* top hits" -> <<"*", " ", "t", "o", "p", " ", "h", "i", "t", "s">>
      [] s = "chill music" -> <<"c", "h", "i", "l", "l", " ", "m", "u", "s", "i", "c">>
      [] s = "- trending songs" -> <<"-", " ", "t", "r", "e", "n", "d", "i", "n", "g", " ", "s", "o", "n", "g", "s">>
      [] s = "Song" -> <<"S", "o", "n", "g">>
      [] s = "song " -> <<"s", "o", "n", "g", " ">>
      [] s = "song" -> <<"s", "o", "n", "g">>
      [] s = "Other" -> <<"O", "t", "h", "e", "r">>
      [] s = "other" -> <<"o", "t", "h", "e", "r">>
      [] s = "Artist" -> <<"A", "r", "t", "i", "s", "t">>
      [] s = "ARTIST" -> <<"A", "R", "T", "I", "S", "T">>
      [] s = "artist" -> <<"a", "r", "t", "i", "s", "t">>
      [] s = "q1" -> <<"q", "1">>
      [] s = "q2" -> <<"q", "2">>
      [] s = "q3" -> <<"q", "3">>
      [] s = "q4" -> <<"q", "4">>
      [] s = "q5" -> <<"q", "5">>
      [] s = "q6" -> <<"q", "6">>
      [] s = "q7" -> <<"q", "7">>
      [] s = "q8" -> <<"q", "8">>
      [] s = "hour" -> <<"h", "o", "u", "r">>
      [] s = "hr" -> <<"h", "r">>
      [] s = "h" -> <<"h">>
      [] s = "minute" -> <<"m", "i", "n", "u", "t", "e">>
      [] s = "min" -> <<"m", "i", "n">>
      [] s = "m" -> <<"m">>
      [] s = "track" -> <<"t", "r", "a", "c", "k">>
      [] s = "2" -> <<"2">>
      [] s = "5" -> <<"5">>
      [] s = "40" -> <<"4", "0">>
      [] s = "songs" -> <<"s", "o", "n", "g", "s">>
      [] s = "minutes" -> <<"m", "i", "n", "u", "t", "e", "s">>
      [] s = "Hours" -> <<"H", "o", "u", "r", "s">>
      [] s = "hours" -> <<"h", "o", "u", "r", "s">>
      [] s = "marathi" -> <<"m", "a", "r", "a", "t", "h", "i">>
      [] s = "tracks" -> <<"t", "r", "a", "c", "k", "s">>
      [] s = "playlist" -> <<"p", "l", "a", "y", "l", "i", "s", "t">>
      [] s = "{heart_eyes}" -> <<"{heart_eyes}">>
      [] s = "{sunglasses}" -> <<"{sunglasses}">>
      [] s = "{cry}" -> <<"{cry}">>
      [] s = "great" -> <<"g", "r", "e", "a", "t">>
      [] s = "music" -> <<"m", "u", "s", "i", "c">>
      [] s = "tamil" -> <<"t", "a", "m", "i", "l">>
      [] s = "joy" -> <<"j", "o", "y">>
      [] s = "cheerful" -> <<"c", "h", "e", "e", "r", "f", "u", "l">>
      [] s = "good" -> <<"g", "o", "o", "d">>
      [] s = "amazing" -> <<"a", "m", "a", "z", "i", "n", "g">>
      [] s = "depressed" -> <<"d", "e", "p", "r", "e", "s", "s", "e", "d">>
      [] s = "down" -> <<"d", "o", "w", "n">>
      [] s = "blue" -> <<"b", "l", "u", "e">>
      [] s = "cry" -> <<"c", "r", "y">>
      [] s = "angry" -> <<"a", "n", "g", "r", "y">>
      [] s = "mad" -> <<"m", "a", "d">>
      [] s = "furious" -> <<"f", "u", "r", "i", "o", "u", "s">>
      [] s = "rage" -> <<"r", "a", "g", "e">>
      [] s = "hate" -> <<"h", "a", "t", "e">>
      [] s = "annoyed" -> <<"a", "n", "n", "o", "y", "e", "d">>
      [] s = "excited" -> <<"e", "x", "c", "i", "t", "e", "d">>
      [] s = "thrilled" -> <<"t", "h", "r", "i", "l", "l", "e", "d">>
      [] s = "pumped" -> <<"p", "u", "m", "p", "e", "d">>
      [] s = "peaceful" -> <<"p", "e", "a", "c", "e", "f", "u", "l">>
      [] s = "serene" -> <<"s", "e", "r", "e", "n", "e">>
      [] s = "quiet" -> <<"q", "u", "i", "e", "t">>
      [] s = "love" -> <<"l", "o", "v", "e">>
      [] s = "romantic" -> <<"r", "o", "m", "a", "n", "t", "i", "c">>
      [] s = "valentine" -> <<"v", "a", "l", "e", "n", "t", "i", "n", "e">>
      [] s = "date" -> <<"d", "a", "t", "e">>
      [] s = "heart" -> <<"h", "e", "a", "r", "t">>
      [] s = "nostalgic" -> <<"n", "o", "s", "t", "a", "l", "g", "i", "c">>
      [] s = "memories" -> <<"m", "e", "m", "o", "r", "i", "e", "s">>
      [] s = "old" -> <<"o", "l", "d">>
      [] s = "past" -> <<"p", "a", "s", "t">>
      [] s = "remember" -> <<"r", "e", "m", "e", "m", "b", "e", "r">>
      [] s = "bhojpuri" -> <<"b", "h", "o", "j", "p", "u", "r", "i">>
      [] s = "{hindi:devanagari}" -> <<"{hindi:devanagari}">>
      [] s = "english" -> <<"e", "n", "g", "l", "i", "s", "h">>
      [] s = "hollywood" -> <<"h", "o", "l", "l", "y", "w", "o", "o", "d">>
      [] s = "western" -> <<"w", "e", "s", "t", "e", "r", "n">>
      [] s = "punjabi" -> <<"p", "u", "n", "j", "a", "b", "i">>
      [] s = "{punjabi:gurmukhi}" -> <<"{punjabi:gurmukhi}">>
      [] s = "bengali" -> <<"b", "e", "n", "g", "a", "l", "i">>
      [] s = "bangla" -> <<"b", "a", "n", "g", "l", "a">>
      [] s = "{bengali:bengali}" -> <<"{bengali:bengali}">>
      [] s = "{tamil:tamil}" -> <<"{tamil:tamil}">>
      [] s = "telugu" -> <<"t", "e", "l", "u", "g", "u">>
      [] s = "{telugu:telugu}" -> <<"{telugu:telugu}">>
      [] s = "{marathi:devanagari}" -> <<"{marathi:devanagari}">>
      [] s = "gujarati" -> <<"g", "u", "j", "a", "r", "a", "t", "i">>
      [] s = "{gujarati:gujarati}" -> <<"{gujarati:gujarati}">>
      [] s = "spanish" -> <<"s", "p", "a", "n", "i", "s", "h">>
      [] s = "espa{n~}ol" -> <<"e", "s", "p", "a", "{n~}", "o", "l">>
      [] s = "latino" -> <<"l", "a", "t", "i", "n", "o">>
      [] s = "french" -> <<"f", "r", "e", "n", "c", "h">>
      [] s = "fran{c,}ais" -> <<"f", "r", "a", "n", "{c,}", "a", "i", "s">>
      [] s = "korean" -> <<"k", "o", "r", "e", "a", "n">>
      [] s = "k-pop" -> <<"k", "-", "p", "o", "p">>
      [] s = "kpop" -> <<"k", "p", "o", "p">>
      [] s = "{korean:hangul}" -> <<"{korean:hangul}">>
      [] s = "japanese" -> <<"j", "a", "p", "a", "n", "e", "s", "e">>
      [] s = "j-pop" -> <<"j", "-", "p", "o", "p">>
      [] s = "jpop" -> <<"j", "p", "o", "p">>
      [] s = "{japanese:kanji}" -> <<"{japanese:kanji}">>
      [] s = "sadness" -> <<"s", "a", "d", "n", "e", "s", "s">>
      [] s = "curiosity" -> <<"c", "u", "r", "i", "o", "s", "i", "t", "y">>
      [] s = "Love" -> <<"L", "o", "v", "e">>
      [] s = "en" -> <<"e", "n">>
      [] s = "fr" -> <<"f", "r">>
      [] s = "de" -> <<"d", "e">>
      [] s = "EN" -> <<"E", "N">>
      [] s = "positive" -> <<"p", "o", "s", "i", "t", "i", "v", "e">>
      [] s = "negative" -> <<"n", "e", "g", "a", "t", "i", "v", "e">>
      [] s = "neutral" -> <<"n", "e", "u", "t", "r", "a", "l">>
      [] s = "   " -> <<" ", " ", " ">>
      [] s = " abc " -> <<" ", "a", "b", "c", " ">>
      [] s = "abc" -> <<"a", "b", "c">>

\* the characters of every string, as one table
CharTable == [s \in KnownStrings |-> CharsOf(s)]

\* the characters of a string
Chars(s) == CharTable[s]

\* the string with these characters
Str(cs) == CHOOSE s \in KnownStrings : Chars(s) = cs

\* str.lower(), on one character
LowerChar(c) ==
    CASE c = "A" -> "a"
      [] c = "B" -> "b"
      [] c = "C" -> "c"
      [] c = "D" -> "d"
      [] c = "E" -> "e"
      [] c = "F" -> "f"
      [] c = "G" -> "g"
      [] c = "H" -> "h"
      [] c = "I" -> "i"
      [] c = "J" -> "j"
      [] c = "K" -> "k"
      [] c = "L" -> "l"
      [] c = "M" -> "m"
      [] c = "N" -> "n"
      [] c = "O" -> "o"
      [] c = "P" -> "p"
      [] c = "Q" -> "q"
      [] c = "R" -> "r"
      [] c = "S" -> "s"
      [] c = "T" -> "t"
      [] c = "U" -> "u"
      [] c = "V" -> "v"
      [] c = "W" -> "w"
      [] c = "X" -> "x"
      [] c = "Y" -> "y"
      [] c = "Z" -> "z"
      [] OTHER -> c

\* str.lower(), as characters
LowerChars(s) == [i \in DOMAIN Chars(s) |-> LowerChar(Chars(s)[i])]

\* `kw in text`, on characters
ContainsChars(text, kw) ==
    \E i \in 0..(Len(text) - Len(kw)) : SubSeq(text, i + 1, i + Len(kw)) = kw

\* `kw in s.lower()`
LowerContains(s, kw) == ContainsChars(LowerChars(s), Chars(kw))

IsSpace(c) == c = " "

RECURSIVE LStripChars(_)
LStripChars(cs) ==
    IF cs # <<>> /\ IsSpace(Head(cs)) THEN LStripChars(Tail(cs)) ELSE cs

RECURSIVE RStripChars(_)
RStripChars(cs) ==
    IF cs # <<>> /\ IsSpace(cs[Len(cs)])
    THEN RStripChars(SubSeq(cs, 1, Len(cs) - 1))
    ELSE cs

\* str.strip()
Strip(s) == Str(RStripChars(LStripChars(Chars(s))))

\* str.startswith(c), c one character
StartsWith(s, c) == Chars(s) # <<>> /\ Head(Chars(s)) = c

(***************************************************************************)
(* Tracks: the dicts search_tracks and get_recommendations build. An id of *)
(* "" stands for a missing id (None), which `if track_id` treats alike.    *)
(***************************************************************************)
Track(id, name, artist, popularity) ==
    [id |-> id, name |-> name, artist |-> artist, popularity |-> popularity]

(***************************************************************************)
(* PlaylistGenerator._remove_duplicates                                    *)
(***************************************************************************)
\* f"{track.get('name', '')}-{track.get('artist', '')}"
Identifier(track) == track.name \o "-" \o track.artist

RECURSIVE KeepLastLoop(_, _, _)
\* a deduplication that lets a later record replace the one kept
KeepLastLoop(tracks, seen, unique) ==
    IF tracks = <<>> THEN unique
    ELSE LET track == Head(tracks)
             key   == IF track.id # "" THEN track.id ELSE Identifier(track)
             same(t) == (IF t.id # "" THEN t.id ELSE Identifier(t)) # key
         IN  KeepLastLoop(Tail(tracks), seen \cup {key},
                          Append(SelectSeq(unique, same), track))

RECURSIVE RemoveDuplicatesLoop(_, _, _)
\* the for loop: `seen` and `unique` after the tracks still to visit
RemoveDuplicatesLoop(tracks, seen, unique) ==
    IF tracks = <<>> THEN unique
    ELSE LET track    == Head(tracks)
             track_id == track.id
         IN  IF track_id # "" /\ track_id \notin seen
             THEN RemoveDuplicatesLoop(Tail(tracks), seen \cup {track_id},
                                       Append(unique, track))
             ELSE IF track_id = ""
             THEN IF Identifier(track) \notin seen
                  THEN RemoveDuplicatesLoop(Tail(tracks),
                                            seen \cup {Identifier(track)},
                                            Append(unique, track))
                  ELSE RemoveDuplicatesLoop(Tail(tracks), seen, unique)
             ELSE RemoveDuplicatesLoop(Tail(tracks), seen, unique)

\* a deduplication in which the last record of a key wins
RemoveDuplicatesKeepLast(tracks) == KeepLastLoop(tracks, {}, <<>>)

RemoveDuplicates(tracks) == RemoveDuplicatesLoop(tracks, {}, <<>>)

(***************************************************************************)
(* PlaylistGenerator._simple_track_selection and _curate_playlist.         *)
(* random.shuffle may leave any order: a selector is the set of the lists  *)
(* it can return.                                                          *)
(***************************************************************************)
\* random.shuffle(s): every order of s
Shuffles(s) ==
    {[i \in 1..Len(s) |-> s[p[i]]] : p \in Permutations(1..Len(s))}

RECURSIVE InsertByPopularity(_, _)
\* t put into a list sorted by popularity descending, behind its equals
InsertByPopularity(sorted, t) ==
    IF sorted = <<>> THEN <<t>>
    ELSE IF Head(sorted).popularity >= t.popularity
         THEN <<Head(sorted)>> \o InsertByPopularity(Tail(sorted), t)
         ELSE <<t>> \o sorted

RECURSIVE SortSuffix(_, _)
SortSuffix(sorted, rest) ==
    IF rest = <<>> THEN sorted
    ELSE SortSuffix(InsertByPopularity(sorted, Head(rest)), Tail(rest))

\* sorted(tracks, key=popularity, reverse=True): stable, equals keep their order
SortedByPopularity(tracks) == SortSuffix(<<>>, tracks)

\* int(target_count * 0.7)
PopularCount(target_count) == (7 * target_count) \div 10

\* a selection that forgets to add the discovery tracks
SimpleTrackSelectionPopularOnly(tracks, target_count) ==
    LET sorted_tracks == SortedByPopularity(tracks)
        popular_count == PopularCount(target_count)
        selected      == Take(sorted_tracks, popular_count)
    IN  {Take(fin, target_count) : fin \in Shuffles(selected)}

SimpleTrackSelection(tracks, target_count) ==
    LET sorted_tracks == SortedByPopularity(tracks)
        popular_count == PopularCount(target_count)
        random_count  == target_count - popular_count
        selected      == Take(sorted_tracks, popular_count)
        remaining     == Drop(sorted_tracks, popular_count)
        extended      == IF remaining # <<>> /\ random_count > 0
                         THEN {selected \o Take(sh, random_count) :
                                   sh \in Shuffles(remaining)}
                         ELSE {selected}
    IN  {Take(fin, target_count) : fin \in UNION {Shuffles(e) : e \in extended}}

\* tracks[:100], the tracks shown to Gemini
GeminiTrackLimit == 100

\* What the Gemini model answers to the curation prompt:
\*   kind "raise"       generate_content raises
\*   kind "unparsable"  reading response.text or int() raises
\*   kind "indices"     the first line, split at commas: per item whether
\*                      item.strip().isdigit(), and its int() value
NoResp == [kind |-> "none", items |-> <<>>]

\* the items of a Gemini selection: indices in and out of range, and a word
GeminiItems(n) ==
    {[digit |-> TRUE, val |-> v] : v \in {0, 1, n}} \cup {[digit |-> FALSE, val |-> 0]}

GeminiSelections(n) ==
    {[kind |-> "raise", items |-> <<>>], [kind |-> "unparsable", items |-> <<>>]}
    \cup {[kind |-> "indices", items |-> its] : its \in SeqsUpTo(GeminiItems(n), MaxTokens)}

\* the indices the list comprehension keeps
SelectedIndices(items, n) ==
    LET keep(it) == it.digit /\ it.val < n
        kept     == SelectSeq(items, keep)
    IN  [i \in DOMAIN kept |-> kept[i].val]

\* _curate_playlist after target_count is known
CurateWithTarget(tracks, target_count, has_model, resp) ==
    IF Len(tracks) <= target_count THEN Shuffles(tracks)
    ELSE IF ~has_model THEN SimpleTrackSelection(tracks, target_count)
    ELSE IF resp.kind # "indices" THEN SimpleTrackSelection(tracks, target_count)
    ELSE
      LET tracks_to_process == Take(tracks, GeminiTrackLimit)
          selected_indices  == SelectedIndices(resp.items, Len(tracks_to_process))
          valid(idx)        == 0 <= idx /\ idx < Len(tracks_to_process)
          valid_indices     == SelectSeq(selected_indices, valid)
          selected_tracks_  == [i \in DOMAIN valid_indices |->
                                   tracks_to_process[valid_indices[i] + 1]]
          unselected(t)     == t \notin Range(selected_tracks_)
          remaining_tracks  == SortedByPopularity(SelectSeq(tracks, unselected))
          needed            == target_count - Len(selected_tracks_)
          filled            == IF Len(selected_tracks_) < target_count
                               THEN selected_tracks_ \o Take(remaining_tracks, needed)
                               ELSE selected_tracks_
      IN  IF Len(selected_tracks_) < target_count \div 2
          THEN SimpleTrackSelection(tracks, target_count)
          ELSE {Take(sh, target_count) : sh \in Shuffles(filled)}

\* whether _curate_playlist asks the Gemini model
ConsultsGemini(tracks, target_count, has_model) ==
    Len(tracks) > target_count /\ has_model

\* target_count = max(10, min(50, int(duration_minutes / 3.5)))
MinTargetCount == 10
MaxTargetCount == 50
TargetCount(duration) ==
    Max(MinTargetCount, Min(MaxTargetCount, (2 * duration) \div 7))

\* MoodAnalyzer.analyze_query: num_songs = max(3, min(50, duration // 4))
AvgSongDuration == 4
MinSongs == 3
MaxSongs == 50
\* num_songs computed as _curate_playlist computes its target_count
NumSongsAsTargetCount(duration) == TargetCount(duration)

NumSongs(duration) ==
    Max(MinSongs, Min(MaxSongs, duration \div AvgSongDuration))

(***************************************************************************)
(* The catalog: what the upstream service would answer. The data stay the  *)
(* same for the whole behaviour; whether a call is answered is decided per *)
(* call.                                                                   *)
(***************************************************************************)
TrackA == Track("a1", "Alpha", "X", 80)
TrackB == Track("b2", "Beta", "Y", 50)
TrackC == Track("c3", "Gamma", "X", 50)
TrackD == Track("d4", "Delta", "Z", 20)

Catalogs == {"empty", "rich", "fallback_only"}

\* the tracks client.search(query) finds
CatalogSearch(c, query) ==
    IF c = "rich" THEN
        CASE query = "Night Drive"    -> <<TrackA, TrackB>>
          [] query = "popular music"  -> <<TrackB, TrackC>>
          [] query = "trending songs" -> <<TrackD>>
          [] query = "ambient"        -> <<TrackA>>
          [] query = "chill music"    -> <<TrackC, TrackD>>
          [] query = "popular songs"  -> <<TrackA>>
          [] query = "top hits"       -> <<TrackB>>
          [] OTHER                    -> <<>>
    ELSE IF c = "fallback_only" THEN
        CASE query = "popular songs"  -> <<TrackA, TrackB>>
          [] query = "top hits"       -> <<TrackB, TrackC>>
          [] OTHER                    -> <<>>
    ELSE <<>>

\* the tracks client.recommendations(seed_tracks) finds
CatalogRecommendations(c) ==
    IF c = "rich" THEN <<TrackC, TrackD>> ELSE <<>>

(***************************************************************************)
(* SpotifyHandler                                                          *)
(***************************************************************************)
\* is_authenticated
IsAuthenticated == sp_client /\ sp_token

\* search_tracks has a client to call: self.client if authenticated, else
\* self.app_client
HasSearchClient == IsAuthenticated \/ app_client

\* whether an upstream call made now can be answered, can raise
CallAnswers == IF upstream = "reliable" THEN {TRUE} ELSE BOOLEAN

\* search_tracks: the track list, or [] when there is no client or the call
\* raised (answered = FALSE)
SearchTracks(query, answered) ==
    IF answered THEN CatalogSearch(catalog, query) ELSE <<>>

\* get_recommendations: [] unless authenticated, seeded and answered
GetRecommendations(seed_ids, answered) ==
    IF ~IsAuthenticated THEN <<>>
    ELSE IF Take(seed_ids, 5) = <<>> THEN <<>>
    ELSE IF answered THEN CatalogRecommendations(catalog) ELSE <<>>

\* authenticate_with_code: the token exchange raises, or the token is stored
\* and the client built and then current_user() raises or answers
AuthenticateWithCode ==
    /\ pc = "idle"
    /\ \E exchanged \in CallAnswers :
         IF exchanged
         THEN sp_token' = TRUE /\ sp_client' = TRUE
         ELSE UNCHANGED <<sp_token, sp_client>>
    /\ UNCHANGED <<app_client, model, world_vars, call_vars, run_vars, fn_vars, analyzer_vars,
                   server_vars>>

(***************************************************************************)
(* PlaylistGenerator: the search queries (Step 2)                          *)
(***************************************************************************)
RECURSIVE SetToSeq(_)
\* the elements of a set in one order
SetToSeq(S) ==
    IF S = {} THEN <<>>
    ELSE LET x == CHOOSE y \in S : TRUE IN <<x>> \o SetToSeq(S \ {x})

\* list(set(queries)): the distinct queries, in any order
ListOfSet(queries) == Shuffles(SetToSeq(Range(queries)))

QueryCap == 7

Genres == <<"pop", "rock", "hip hop", "electronic", "indie", "jazz", "country", "r&b">>

RECURSIVE GenreQueries(_, _)
\* the for loop over genres
GenreQueries(p, genres) ==
    IF genres = <<>> THEN <<>>
    ELSE (IF LowerContains(p, Head(genres))
          THEN <<Head(genres) \o " music", "best " \o Head(genres)>>
          ELSE <<>>) \o GenreQueries(p, Tail(genres))

AnyWord(p, words) == \E w \in words : LowerContains(p, w)

MoodQueries(p) ==
    IF AnyWord(p, {"happy", "upbeat", "energetic", "party"})
    THEN <<"upbeat songs", "dance music", "party hits">>
    ELSE IF AnyWord(p, {"sad", "emotional", "melancholy"})
    THEN <<"sad songs", "ballads", "emotional music">>
    ELSE IF AnyWord(p, {"chill", "relax", "calm"})
    THEN <<"chill music", "relaxing songs", "ambient">>
    ELSE IF AnyWord(p, {"workout", "gym", "exercise"})
    THEN <<"workout music", "high energy", "pump up">>
    ELSE <<>>

\* _generate_fallback_queries: the lists it can return
GenerateFallbackQueries(p) ==
    IF AnyWord(p, {"bollywood", "hindi", "indian"})
    THEN {Take(l, QueryCap) :
            l \in ListOfSet(<<p, "bollywood hits", "arijit singh", "shreya ghoshal",
                              "atif aslam", "hindi songs", "bollywood romantic",
                              "ar rahman">>)}
    ELSE {Take(l, QueryCap) :
            l \in ListOfSet(<<p>> \o GenreQueries(p, Genres) \o MoodQueries(p)
                            \o <<"popular music", "trending songs">>)}

\* What the Gemini model answers to the query prompt: kind "raise", or kind
\* "text" with the lines of response.text
GeminiQueryAnswers ==
    {[kind |-> "raise", lines |-> <<>>],
     [kind |-> "text",  lines |-> <<"">>],
     [kind |-> "text",  lines |-> <<" ambient ", "* top hits", "", "chill music">>],
     [kind |-> "text",  lines |-> <<"- trending songs", "ambient">>]}

\* the list comprehension over response.text.split('\n')
GeminiQueries(lines) ==
    LET keep(line) == /\ Strip(line) # ""
                      /\ ~StartsWith(Strip(line), "-")
                      /\ ~StartsWith(Strip(line), "*")
        kept == SelectSeq(lines, keep)
    IN  [i \in DOMAIN kept |-> Strip(kept[i])]

\* _generate_search_queries returning queries instead of queries[:7]
GenerateSearchQueriesUncapped(p, has_model, answer) ==
    IF ~has_model THEN GenerateFallbackQueries(p)
    ELSE IF answer.kind = "raise" THEN GenerateFallbackQueries(p)
    ELSE IF GeminiQueries(answer.lines) = <<>> THEN GenerateFallbackQueries(p)
    ELSE {GeminiQueries(answer.lines)}

\* _generate_search_queries: the lists it can return
GenerateSearchQueries(p, has_model, answer) ==
    IF ~has_model THEN GenerateFallbackQueries(p)
    ELSE IF answer.kind = "raise" THEN GenerateFallbackQueries(p)
    ELSE IF GeminiQueries(answer.lines) = <<>> THEN GenerateFallbackQueries(p)
    ELSE {Take(GeminiQueries(answer.lines), QueryCap)}

(***************************************************************************)
(* PlaylistGenerator.create_playlist                                       *)
(***************************************************************************)
Prompts   == {"Night Drive", "trending songs"}
Durations == {12, 40, 200}

NoResult == [kind |-> "none", value |-> ""]

\* Steps 1 and 2: the call is entered and the search queries are made. The
\* user context of Step 1 only adds text to the Gemini prompt.
CallCreatePlaylist ==
    /\ pc = "idle" /\ runs_left > 0
    /\ \E p \in Prompts, d \in Durations, answer \in GeminiQueryAnswers :
         /\ prompt' = p
         /\ duration_minutes' = d
         /\ search_queries' \in GenerateSearchQueries(p, model, answer)
    /\ pc' = "search"
    /\ runs_left' = runs_left - 1
    /\ ok' = <<>> /\ all_tracks' = <<>> /\ unique_tracks' = <<>>
    /\ fb_issued' = <<>> /\ fb_tracks' = <<>> /\ selected_tracks' = <<>>
    /\ result' = NoResult
    /\ UNCHANGED <<handler_vars, model, world_vars, runs, fn_vars, analyzer_vars,
                   server_vars>>

\* all_tracks.extend(tracks) under `if tracks`
ExtendTracksReplacing(tracks_so_far, tracks) ==
    IF tracks # <<>> THEN tracks ELSE tracks_so_far

ExtendTracks(tracks_so_far, tracks) ==
    IF tracks # <<>> THEN tracks_so_far \o tracks ELSE tracks_so_far

\* Step 3, one pass of the loop: the next query is searched
SearchStep ==
    /\ pc = "search" /\ Len(ok) < Len(search_queries)
    /\ \E answered \in (IF HasSearchClient THEN CallAnswers ELSE {FALSE}) :
         /\ all_tracks' = ExtendTracks(all_tracks,
                              SearchTracks(search_queries[Len(ok) + 1], answered))
         /\ ok' = Append(ok, answered)
    /\ UNCHANGED <<handler_vars, model, world_vars, pc, prompt, duration_minutes,
                   search_queries, unique_tracks, fb_issued, fb_tracks,
                   selected_tracks, result, run_vars, fn_vars, analyzer_vars,
                   server_vars>>

\* [track["id"] for track in all_tracks[:5] if track.get("id")]
SeedIds(tracks) ==
    LET has_id(t) == t.id # ""
        seeds     == SelectSeq(Take(tracks, 5), has_id)
    IN  [i \in DOMAIN seeds |-> seeds[i].id]

\* Step 4: all_tracks with the recommendations, when they are asked for
WithRecommendations(tracks, answered) ==
    IF IsAuthenticated /\ tracks # <<>> /\ SeedIds(tracks) # <<>>
    THEN ExtendTracks(tracks, GetRecommendations(SeedIds(tracks), answered))
    ELSE tracks

\* Steps 4 and 5, after the last query: recommendations, then deduplication
RecommendAndDedup ==
    /\ pc = "search" /\ Len(ok) = Len(search_queries)
    /\ \E answered \in CallAnswers :
         all_tracks' = WithRecommendations(all_tracks, answered)
    /\ unique_tracks' = RemoveDuplicates(all_tracks')
    /\ pc' = IF unique_tracks' = <<>> THEN "fallback" ELSE "curate"
    /\ UNCHANGED <<handler_vars, model, world_vars, prompt, duration_minutes,
                   search_queries, ok, fb_issued, fb_tracks, selected_tracks,
                   result, run_vars, fn_vars, analyzer_vars,
                   server_vars>>

\* _get_bollywood_fallback_queries
BollywoodFallbackQueries ==
    <<"bollywood hits", "hindi songs", "arijit singh", "shreya ghoshal",
      "atif aslam", "rahat fateh ali khan", "armaan malik", "bollywood romantic",
      "bollywood dance", "latest bollywood", "90s bollywood", "ar rahman">>

\* the fallback queries of create_playlist
FallbackQueries(p) ==
    IF LowerContains(p, "bollywood") THEN BollywoodFallbackQueries
    ELSE <<"popular songs", "top hits">>

\* the fallback loop, one pass: the next fallback query is searched
FallbackStep ==
    /\ pc = "fallback" /\ Len(fb_issued) < Len(FallbackQueries(prompt))
    /\ \E answered \in (IF HasSearchClient THEN CallAnswers ELSE {FALSE}) :
         LET query  == FallbackQueries(prompt)[Len(fb_issued) + 1]
             tracks == SearchTracks(query, answered)
         IN  /\ unique_tracks' = unique_tracks \o tracks
             /\ fb_tracks' = fb_tracks \o tracks
             /\ fb_issued' = Append(fb_issued, query)
    /\ UNCHANGED <<handler_vars, model, world_vars, pc, prompt, duration_minutes,
                   search_queries, ok, all_tracks, selected_tracks, result,
                   run_vars, fn_vars, analyzer_vars,
                   server_vars>>

NoTracksFound ==
    [kind |-> "exception", value |-> "No tracks found for the given prompt."]

\* after the fallback loop: deduplication, and the exception when nothing is left
FallbackDedup ==
    /\ pc = "fallback" /\ Len(fb_issued) = Len(FallbackQueries(prompt))
    /\ unique_tracks' = RemoveDuplicates(unique_tracks)
    /\ IF unique_tracks' = <<>>
       THEN pc' = "raised" /\ result' = NoTracksFound
       ELSE pc' = "curate" /\ UNCHANGED result
    /\ UNCHANGED <<handler_vars, model, world_vars, prompt, duration_minutes,
                   search_queries, ok, all_tracks, fb_issued, fb_tracks,
                   selected_tracks, run_vars, fn_vars, analyzer_vars,
                   server_vars>>

\* Steps 6 and 7: _curate_playlist (which shuffles the list it is given in
\* place when it returns it whole), then the selection is saved to a file
CuratePlaylist ==
    /\ pc = "curate"
    /\ \E resp \in GeminiSelections(Len(unique_tracks)) :
         selected_tracks' \in
             CurateWithTarget(unique_tracks, TargetCount(duration_minutes), model, resp)
    /\ unique_tracks' = IF Len(unique_tracks) <= TargetCount(duration_minutes)
                        THEN selected_tracks' ELSE unique_tracks
    /\ pc' = "create"
    /\ UNCHANGED <<handler_vars, model, world_vars, prompt, duration_minutes,
                   search_queries, ok, all_tracks, fb_issued, fb_tracks, result,
                   run_vars, fn_vars, analyzer_vars,
                   server_vars>>

NotAuthenticated == [kind |-> "exception", value |-> "Not authenticated"]
ApiError         == [kind |-> "exception", value |-> "Spotify API error"]
PlaylistUrl(n)   == [kind |-> "url", value |-> "playlist" \o ToString(n)]

\* Step 8: SpotifyHandler.create_playlist
CreateSpotifyPlaylist ==
    /\ pc = "create"
    /\ IF ~IsAuthenticated
       THEN pc' = "raised" /\ result' = NotAuthenticated /\ UNCHANGED playlists
       ELSE \E answered \in CallAnswers :
              IF answered
              THEN /\ playlists' = Append(playlists, <<>>)
                   /\ result' = PlaylistUrl(Len(playlists) + 1)
                   /\ pc' = "add"
              ELSE pc' = "raised" /\ result' = ApiError /\ UNCHANGED playlists
    /\ UNCHANGED <<handler_vars, model, catalog, upstream, prompt, duration_minutes,
                   search_queries, ok, all_tracks, unique_tracks, fb_issued,
                   fb_tracks, selected_tracks, run_vars, fn_vars, analyzer_vars,
                   server_vars>>

\* Step 9 without its call of add_tracks_to_playlist
AddTracksToPlaylistSkipped ==
    /\ pc = "add"
    /\ pc' = "returned"
    /\ UNCHANGED <<handler_vars, model, world_vars, prompt, duration_minutes,
                   search_queries, ok, all_tracks, unique_tracks, fb_issued,
                   fb_tracks, selected_tracks, result, run_vars, fn_vars,
                   analyzer_vars, server_vars>>

\* Step 9: SpotifyHandler.add_tracks_to_playlist, and the return of the URL
AddTracksToPlaylist ==
    /\ pc = "add"
    /\ IF selected_tracks = <<>>
       THEN pc' = "returned" /\ UNCHANGED <<playlists, result>>
       ELSE \E answered \in CallAnswers :
              IF answered
              THEN /\ playlists' = [playlists EXCEPT ![Len(playlists)] = selected_tracks]
                   /\ pc' = "returned" /\ UNCHANGED result
              ELSE pc' = "raised" /\ result' = ApiError /\ UNCHANGED playlists
    /\ UNCHANGED <<handler_vars, model, catalog, upstream, prompt, duration_minutes,
                   search_queries, ok, all_tracks, unique_tracks, fb_issued,
                   fb_tracks, selected_tracks, run_vars, fn_vars, analyzer_vars,
                   server_vars>>

\* the call is over: its request and outcome are what the caller has seen
Finish ==
    /\ pc \in {"returned", "raised"}
    /\ runs' = Append(runs, [prompt |-> prompt, duration |-> duration_minutes,
                             outcome |-> pc,
                             tracks |-> IF pc = "returned" THEN selected_tracks
                                        ELSE <<>>])
    /\ pc' = "idle"
    /\ prompt' = "" /\ duration_minutes' = 0
    /\ search_queries' = <<>> /\ ok' = <<>> /\ all_tracks' = <<>>
    /\ unique_tracks' = <<>> /\ fb_issued' = <<>> /\ fb_tracks' = <<>>
    /\ selected_tracks' = <<>> /\ result' = NoResult
    /\ UNCHANGED <<handler_vars, model, world_vars, runs_left, fn_vars, analyzer_vars,
                   server_vars>>

\* a MoodAnalyzer just built (__init__)
NewAnalyzer ==
    /\ initialized = FALSE
    /\ sentiment_pipeline = FALSE /\ emotion_pipeline = FALSE
    /\ language_pipeline = FALSE
    /\ emoji_emotion_cache = <<>>

\* a PlaylistGenerator: the handle it searches through (self.spotify) and
\* its client attribute, each 0 when not there or the token of the client
Generator(spotify, client_attr) == [spotify |-> spotify, client |-> client_attr]

\* playlist_generator = None
NoGenerator == [spotify |-> 0, client |-> 0]

\* main.py is not running
NoServer ==
    /\ env_credentials = FALSE /\ server = "off" /\ cred = FALSE
    /\ token = 0 /\ client = 0 /\ playlist_generator = NoGenerator
    /\ requests = <<>>

NoHelperCall ==
    /\ fn_tracks = <<>> /\ fn_target = 0 /\ fn_model = FALSE /\ fn_resp = NoResp
    /\ fn_called = "" /\ fn_ret = <<>>
    /\ fn_text = "" /\ fn_prev = <<>>
    /\ NewAnalyzer

\* a SpotifyHandler and a PlaylistGenerator just built, nobody logged in
InitProgram ==
    /\ sp_client = FALSE /\ sp_token = FALSE
    /\ app_client \in BOOLEAN
    /\ catalog \in Catalogs
    /\ playlists = <<>>
    /\ pc = "idle" /\ prompt = "" /\ duration_minutes = 0
    /\ search_queries = <<>> /\ ok = <<>> /\ all_tracks = <<>>
    /\ unique_tracks = <<>> /\ fb_issued = <<>> /\ fb_tracks = <<>>
    /\ selected_tracks = <<>> /\ result = NoResult
    /\ runs = <<>>
    /\ NoHelperCall
    /\ NoServer

Init ==
    /\ InitProgram
    /\ model \in BOOLEAN
    /\ upstream = "flaky"
    /\ runs_left = 1

Next ==
    \/ AuthenticateWithCode
    \/ CallCreatePlaylist
    \/ SearchStep
    \/ RecommendAndDedup
    \/ FallbackStep
    \/ FallbackDedup
    \/ CuratePlaylist
    \/ CreateSpotifyPlaylist
    \/ AddTracksToPlaylist
    \/ Finish

Spec == Init /\ [][Next]_vars

\* the same program without GEMINI_API_KEY, upstream answering every call
InitRepeat ==
    /\ InitProgram
    /\ model = FALSE
    /\ upstream = "reliable"
    /\ runs_left = MaxRuns

SpecRepeat == InitRepeat /\ [][Next]_vars

(***************************************************************************)
(* Properties of create_playlist.                                          *)
(***************************************************************************)
\* the call is over
Finished == pc \in {"returned", "raised"}

\* what the planned searches issued so far found: per query the catalog's
\* answer, and nothing for a call that raised or could not be made
SearchResults ==
    Concat([i \in DOMAIN ok |->
               IF ok[i] THEN CatalogSearch(catalog, search_queries[i]) ELSE <<>>])

\* the user is logged in and the call did not end on a failure of the
\* playlist calls of Steps 8 and 9
PlaylistCallsAnswered == IsAuthenticated /\ result \notin {NotAuthenticated, ApiError}

\* C1: if every catalog search, planned and fallback, fails or finds no
\* track, create_playlist ends with a zero-track playlist and raises nothing.
C1_TotalOutageZeroTrackPlaylist ==
    (Finished /\ PlaylistCallsAnswered /\ SearchResults = <<>> /\ fb_tracks = <<>>) =>
        (pc = "returned" /\ selected_tracks = <<>>)

\* C2: a query whose catalog call raises adds nothing, and every other
\* planned query is still searched: the candidate list is the concatenation,
\* in planned order, of what the answered queries found.
C2_FailedSearchIsolated ==
    /\ pc = "search" => all_tracks = SearchResults
    /\ pc \in {"fallback", "curate", "create", "add", "returned", "raised"} =>
         /\ Len(ok) = Len(search_queries)
         /\ Take(all_tracks, Len(SearchResults)) = SearchResults

\* the loop is over; a call raised, and a later query was still searched and
\* its tracks collected
C2_Witness ==
    /\ pc = "search" /\ Len(ok) = Len(search_queries)
    /\ \E i, j \in DOMAIN ok :
         /\ i < j /\ ~ok[i] /\ ok[j]
         /\ CatalogSearch(catalog, search_queries[i]) # <<>>
         /\ CatalogSearch(catalog, search_queries[j]) # <<>>
    /\ all_tracks # <<>>

\* C5: two calls with the same prompt against the same catalog data return
\* the same track sequence.
C5_SameRequestSameTracks ==
    \A i, j \in DOMAIN runs :
        (/\ runs[i].prompt = runs[j].prompt
         /\ runs[i].duration = runs[j].duration
         /\ runs[i].outcome = "returned" /\ runs[j].outcome = "returned") =>
            runs[i].tracks = runs[j].tracks

\* C8: the playlist has min(song_count, available unique candidates) tracks,
\* song_count being what analyze_query computes from the duration (the
\* selector's target count being that same number).
C8_SizeIsSongCount ==
    pc = "returned" =>
        Len(selected_tracks) = Min(NumSongs(duration_minutes), Len(unique_tracks))

\* the unique tracks of the answered planned searches
PlannedUnique == RemoveDuplicates(SearchResults)

\* C9: when some planned searches fail and the others find fewer unique
\* tracks than target_count, the playlist holds exactly those tracks, each
\* once, and the call ends without an error.
C9_PartialFailureShortPlaylist ==
    (/\ Finished /\ PlaylistCallsAnswered
     /\ \E i \in DOMAIN ok : ~ok[i]
     /\ \E j \in DOMAIN ok : ok[j]
     /\ Len(PlannedUnique) < TargetCount(duration_minutes)) =>
        /\ pc = "returned"
        /\ Range(selected_tracks) = Range(PlannedUnique)
        /\ Len(selected_tracks) = Len(PlannedUnique)

\* C10: when every planned search finds nothing, the fallback searches are
\* issued and the playlist holds up to target_count tracks, all of them from
\* the fallback results, and nothing is raised.
C10_FullFallback ==
    (Finished /\ PlaylistCallsAnswered /\ SearchResults = <<>>) =>
        /\ pc = "returned"
        /\ fb_issued = FallbackQueries(prompt)
        /\ Range(selected_tracks) \subseteq Range(fb_tracks)
        /\ Len(selected_tracks) <= TargetCount(duration_minutes)

(***************************************************************************)
(* The helpers applied on their own.                                       *)
(***************************************************************************)
\* no create_playlist call is running and none will be made
NoCall ==
    /\ sp_client = FALSE /\ sp_token = FALSE /\ app_client = FALSE
    /\ model = FALSE
    /\ catalog = "empty" /\ upstream = "reliable" /\ playlists = <<>>
    /\ pc = "idle" /\ prompt = "" /\ duration_minutes = 0
    /\ search_queries = <<>> /\ ok = <<>> /\ all_tracks = <<>>
    /\ unique_tracks = <<>> /\ fb_issued = <<>> /\ fb_tracks = <<>>
    /\ selected_tracks = <<>> /\ result = NoResult
    /\ runs = <<>> /\ runs_left = 0
    /\ NewAnalyzer
    /\ NoServer

program_vars == <<handler_vars, model, world_vars, call_vars, run_vars, analyzer_vars,
                  server_vars>>

\* the records _remove_duplicates is tried on: with and without an id, names
\* and artists that differ in case and surrounding blanks only
DedupTracks ==
    {Track(id, name, artist, 50) :
        id \in {"", "id1", "id2"}, name \in {"Song", "song ", "Other"},
        artist \in {"Artist", "ARTIST"}}

InitDedup ==
    /\ NoCall
    /\ fn_tracks \in SeqsUpTo(DedupTracks, MaxDedupLen)
    /\ fn_target = 0 /\ fn_model = FALSE /\ fn_resp = NoResp
    /\ fn_called = "" /\ fn_ret = <<>>
    /\ fn_text = "" /\ fn_prev = <<>>

CallRemoveDuplicates ==
    /\ fn_called = ""
    /\ fn_ret' = RemoveDuplicates(fn_tracks)
    /\ fn_called' = "_remove_duplicates"
    /\ UNCHANGED <<program_vars, fn_tracks, fn_target, fn_model, fn_resp, fn_text, fn_prev>>

SpecDedup == InitDedup /\ [][CallRemoveDuplicates]_vars

\* str.lower(), as a string
LowerStr(s) == Str(LowerChars(s))

\* the specification's TrackKey: lowercase(trim(artist)) + "|" + lowercase(trim(title))
TrackKey(t) == LowerStr(Strip(t.artist)) \o "|" \o LowerStr(Strip(t.name))

\* the key _remove_duplicates compares: the id, and name-artist without one
DedupKey(t) == IF t.id # "" THEN t.id ELSE Identifier(t)

RECURSIVE IsSubsequence(_, _)
\* sub is s with some elements left out, the others in their order
IsSubsequence(sub, s) ==
    IF sub = <<>> THEN TRUE
    ELSE IF s = <<>> THEN FALSE
    ELSE IF Head(sub) = Head(s) THEN IsSubsequence(Tail(sub), Tail(s))
    ELSE IsSubsequence(sub, Tail(s))

\* the first position of s whose record has the key of s[i]
FirstWithKey(s, i) ==
    CHOOSE j \in DOMAIN s :
        /\ DedupKey(s[j]) = DedupKey(s[i])
        /\ \A k \in 1..(j - 1) : DedupKey(s[k]) # DedupKey(s[i])

\* C6: after _remove_duplicates, any two input records whose artist and
\* title are equal after trimming and lowercasing leave exactly one track
\* with that key in the output, with or without ids, equal or different ids.
C6_OneTrackPerTrackKey ==
    fn_called = "_remove_duplicates" =>
        \A i, j \in DOMAIN fn_tracks :
            (i # j /\ TrackKey(fn_tracks[i]) = TrackKey(fn_tracks[j])) =>
                Cardinality({k \in DOMAIN fn_ret :
                    TrackKey(fn_ret[k]) = TrackKey(fn_tracks[i])}) = 1

\* C7: _remove_duplicates is stable and first-seen-wins: its output is a
\* subsequence of its input, and for every key it compares (the id, or
\* name-artist without an id) the output holds exactly one record with that
\* key, the earliest input record that has it.
C7_DedupStableFirstSeen ==
    fn_called = "_remove_duplicates" =>
        /\ IsSubsequence(fn_ret, fn_tracks)
        /\ \A i \in DOMAIN fn_tracks :
             LET kept == {k \in DOMAIN fn_ret :
                             DedupKey(fn_ret[k]) = DedupKey(fn_tracks[i])}
             IN  /\ Cardinality(kept) = 1
                 /\ \A k \in kept : fn_ret[k] = fn_tracks[FirstWithKey(fn_tracks, i)]

\* a later record with the key of an earlier, different one was dropped, and
\* two records were kept
C7_Witness ==
    /\ fn_called = "_remove_duplicates"
    /\ Len(fn_ret) = 2
    /\ \E i, j \in DOMAIN fn_tracks :
         /\ i < j
         /\ DedupKey(fn_tracks[i]) = DedupKey(fn_tracks[j])
         /\ fn_tracks[i] # fn_tracks[j]

\* the candidate lists the selector is tried on: what _remove_duplicates can
\* return, the i-th track with id "t<i>" and one of two popularities
CandidateLists ==
    UNION {{[i \in 1..n |-> Track("t" \o ToString(i), "Song", "Artist", pop[i])] :
               pop \in [1..n -> {20, 50}]} : n \in 0..MaxCand}

InitSelect ==
    /\ NoCall
    /\ fn_tracks \in CandidateLists
    /\ fn_target \in 0..MaxTarget
    /\ fn_model \in BOOLEAN
    /\ fn_resp = NoResp
    /\ fn_called = "" /\ fn_ret = <<>>
    /\ fn_text = "" /\ fn_prev = <<>>

\* _curate_playlist, entered with its target_count computed
CallCuratePlaylist ==
    /\ fn_called = ""
    /\ \E resp \in GeminiSelections(Len(fn_tracks)) :
         /\ fn_ret' \in CurateWithTarget(fn_tracks, fn_target, fn_model, resp)
         /\ fn_resp' = IF ConsultsGemini(fn_tracks, fn_target, fn_model)
                       THEN resp ELSE NoResp
    /\ fn_called' = "_curate_playlist"
    /\ UNCHANGED <<program_vars, fn_tracks, fn_target, fn_model, fn_text, fn_prev>>

CallSimpleTrackSelection ==
    /\ fn_called = ""
    /\ fn_ret' \in SimpleTrackSelection(fn_tracks, fn_target)
    /\ fn_called' = "_simple_track_selection"
    /\ UNCHANGED <<program_vars, fn_tracks, fn_target, fn_model, fn_resp, fn_text, fn_prev>>

NextSelect == CallCuratePlaylist \/ CallSimpleTrackSelection

SpecSelect == InitSelect /\ [][NextSelect]_vars

\* C3: for every candidate list and target_count, the selector returns
\* exactly min(len(candidates), target_count) tracks, with or without Gemini.
C3_SelectorCount ==
    fn_called \in {"_curate_playlist", "_simple_track_selection"} =>
        Len(fn_ret) = Min(Len(fn_tracks), fn_target)

\* Gemini was asked, named a track twice and one out of range, and there
\* were more candidates than wanted
C3_Witness ==
    /\ fn_called = "_curate_playlist"
    /\ fn_resp.kind = "indices"
    /\ Len(fn_tracks) > fn_target /\ fn_target >= 2
    /\ Len(fn_resp.items) = 2
    /\ Len(fn_ret) = fn_target

\* C4: the selector returns the first target_count candidates of the stable
\* sort by popularity descending: non-increasing in popularity, ties in
\* first-seen order, nothing left out that is more popular than a pick.
C4_SortedByPopularity ==
    fn_called \in {"_curate_playlist", "_simple_track_selection"} =>
        fn_ret = Take(SortedByPopularity(fn_tracks), fn_target)

(***************************************************************************)
(* The query planner applied on its own.                                   *)
(* SpecPlan    _generate_search_queries and _generate_fallback_queries     *)
(*             called once, with and without the Gemini model.             *)
(* SpecReplan  _generate_search_queries called several times with the same *)
(*             prompt.                                                     *)
(***************************************************************************)
MaxPlans == 2         \* calls of the planner in SpecReplan

\* the prompts the planner is tried on: no keyword, a prompt that is itself
\* a fallback query, a genre, a mood word, and the Bollywood branch
PlanPrompts == {"Night Drive", "trending songs", "pop", "chill", "bollywood"}

\* a Gemini answer of more lines than the cap
GeminiLongAnswer ==
    [kind |-> "text", lines |-> <<"q1", "q2", "q3", "q4", "q5", "q6", "q7", "q8">>]

PlanAnswers == GeminiQueryAnswers \cup {GeminiLongAnswer}

InitPlan ==
    /\ NoCall
    /\ fn_text \in PlanPrompts
    /\ fn_model \in BOOLEAN
    /\ fn_tracks = <<>> /\ fn_target = 0 /\ fn_resp = NoResp
    /\ fn_called = "" /\ fn_ret = <<>> /\ fn_prev = <<>>

CallGenerateSearchQueries ==
    /\ fn_called = ""
    /\ \E answer \in PlanAnswers :
         /\ fn_ret' \in GenerateSearchQueries(fn_text, fn_model, answer)
         /\ fn_resp' = IF fn_model THEN answer ELSE NoResp
    /\ fn_called' = "_generate_search_queries"
    /\ UNCHANGED <<program_vars, fn_tracks, fn_target, fn_model, fn_text, fn_prev>>

CallGenerateFallbackQueries ==
    /\ fn_called = ""
    /\ fn_ret' \in GenerateFallbackQueries(fn_text)
    /\ fn_called' = "_generate_fallback_queries"
    /\ UNCHANGED <<program_vars, fn_tracks, fn_target, fn_model, fn_resp, fn_text,
                   fn_prev>>

NextPlan == CallGenerateSearchQueries \/ CallGenerateFallbackQueries

SpecPlan == InitPlan /\ [][NextPlan]_vars

ReplanPrompts == {"Night Drive", "trending songs"}

InitReplan ==
    /\ NoCall
    /\ fn_text \in ReplanPrompts
    /\ fn_model \in BOOLEAN
    /\ fn_tracks = <<>> /\ fn_target = 0 /\ fn_resp = NoResp
    /\ fn_called = "" /\ fn_ret = <<>> /\ fn_prev = <<>>

\* one more call of _generate_search_queries with the same prompt
Replan ==
    /\ Len(fn_prev) < MaxPlans
    /\ \E answer \in GeminiQueryAnswers :
         \E queries \in GenerateSearchQueries(fn_text, fn_model, answer) :
            /\ fn_ret' = queries
            /\ fn_prev' = Append(fn_prev, queries)
            /\ fn_resp' = IF fn_model THEN answer ELSE NoResp
    /\ fn_called' = "_generate_search_queries"
    /\ UNCHANGED <<program_vars, fn_tracks, fn_target, fn_model, fn_text>>

SpecReplan == InitReplan /\ [][Replan]_vars

\* C11: planning twice for the same prompt yields the same queries in the
\* same order.
C11_SamePromptSamePlan ==
    \A i, j \in DOMAIN fn_prev : fn_prev[i] = fn_prev[j]

\* the popular fallback queries of _generate_fallback_queries
IsPopularQuery(q) == q \in {"popular music", "trending songs"}

\* C12: the list _generate_fallback_queries returns holds exactly one popular
\* fallback query, as its last element, holds no query twice, and starts
\* with the user's prompt.
C12_OnePopularLastPromptFirst ==
    fn_called = "_generate_fallback_queries" =>
        /\ {i \in DOMAIN fn_ret : IsPopularQuery(fn_ret[i])} = {Len(fn_ret)}
        /\ \A i, j \in DOMAIN fn_ret : i # j => fn_ret[i] # fn_ret[j]
        /\ fn_ret[1] = fn_text

\* C13: whatever the prompt and the Gemini model do, the planner returns a
\* non-empty list of at most 7 queries.
C13_PlanNonEmptyCapped ==
    fn_called \in {"_generate_search_queries", "_generate_fallback_queries"} =>
        (Len(fn_ret) >= 1 /\ Len(fn_ret) <= 7)

\* Gemini answered more queries than the cap and seven were returned
C13_Witness ==
    /\ fn_called = "_generate_search_queries"
    /\ fn_model /\ fn_resp.kind = "text"
    /\ Len(GeminiQueries(fn_resp.lines)) > 7
    /\ Len(fn_ret) = 7

(***************************************************************************)
(* MoodAnalyzer: query texts. A query text is given by its words, the      *)
(* pieces between its single blanks; TextChars gives its characters.       *)
(***************************************************************************)
RECURSIVE TextChars(_)
\* the characters of the text with these words
TextChars(words) ==
    IF words = <<>> THEN <<>>
    ELSE IF Len(words) = 1 THEN Chars(words[1])
    ELSE Chars(Head(words)) \o <<" ">> \o TextChars(Tail(words))

\* text.lower(), as characters
LowerText(words) ==
    LET cs == TextChars(words) IN [i \in DOMAIN cs |-> LowerChar(cs[i])]

\* \d
IsDigit(c) == c \in {"0", "1", "2", "3", "4", "5", "6", "7", "8", "9"}

DigitVal(c) ==
    CASE c = "0" -> 0 [] c = "1" -> 1 [] c = "2" -> 2 [] c = "3" -> 3
      [] c = "4" -> 4 [] c = "5" -> 5 [] c = "6" -> 6 [] c = "7" -> 7
      [] c = "8" -> 8 [] c = "9" -> 9

RECURSIVE ParseInt(_)
\* int(x), x a string of digits
ParseInt(cs) ==
    IF cs = <<>> THEN 0
    ELSE 10 * ParseInt(SubSeq(cs, 1, Len(cs) - 1)) + DigitVal(cs[Len(cs)])

\* the characters u stand in cs from position pos on
PrefixAt(cs, pos, u) ==
    pos + Len(u) - 1 <= Len(cs) /\ SubSeq(cs, pos, pos + Len(u) - 1) = u

(***************************************************************************)
(* MoodAnalyzer.extract_duration                                           *)
(***************************************************************************)
\* self.duration_patterns: per pattern the alternatives of its unit group
\* and the factor of its converter. The patterns are
\* (\d+)\s*(?:u1|u2|u3)(?:s)?, whose optional s decides no match
duration_patterns ==
    << [units |-> <<"hour", "hr", "h">>,     factor |-> 60],
       [units |-> <<"minute", "min", "m">>,  factor |-> 1],
       [units |-> <<"song", "track">>,       factor |-> 4] >>

\* the positions e at which (\d+), started at i, can end so that \s* and a
\* unit follow
MatchEnds(cs, i, units) ==
    {e \in i..Len(cs) :
        /\ \A d \in i..e : IsDigit(cs[d])
        /\ \E k \in 0..(Len(cs) - e) :
             /\ \A b \in (e + 1)..(e + k) : IsSpace(cs[b])
             /\ \E u \in DOMAIN units : PrefixAt(cs, e + k + 1, Chars(units[u]))}

NoMatch == [found |-> FALSE, group |-> <<>>]

\* re.search(pattern, text).group(1): the leftmost match, \d+ taking the most
\* digits it can
ReSearch(cs, units) ==
    LET starts == {i \in DOMAIN cs : MatchEnds(cs, i, units) # {}}
    IN  IF starts = {} THEN NoMatch
        ELSE LET i0 == CHOOSE i \in starts : \A j \in starts : i <= j
                 e0 == CHOOSE e \in MatchEnds(cs, i0, units) :
                          \A f \in MatchEnds(cs, i0, units) : f <= e
             IN  [found |-> TRUE, group |-> SubSeq(cs, i0, e0)]

DefaultDuration == 30

RECURSIVE FirstPattern(_, _)
\* the for loop over the patterns
FirstPattern(cs, patterns) ==
    IF patterns = <<>> THEN DefaultDuration
    ELSE LET match == ReSearch(cs, Head(patterns).units)
         IN  IF match.found THEN ParseInt(match.group) * Head(patterns).factor
             ELSE FirstPattern(cs, Tail(patterns))

ExtractDuration(words) == FirstPattern(LowerText(words), duration_patterns)

MaxWords == 3         \* most words in a query text

\* the words the duration texts are made of
DurationWords ==
    {"2", "5", "40", "hindi", "songs", "minutes", "Hours", "marathi", "tracks", "playlist"}

InitDuration ==
    /\ NoCall
    /\ fn_text \in SeqsUpTo(DurationWords, MaxWords)
    /\ fn_model = FALSE
    /\ fn_tracks = <<>> /\ fn_target = 0 /\ fn_resp = NoResp
    /\ fn_called = "" /\ fn_ret = <<>> /\ fn_prev = <<>>

CallExtractDuration ==
    /\ fn_called = ""
    /\ fn_ret' = ExtractDuration(fn_text)
    /\ fn_called' = "extract_duration"
    /\ UNCHANGED <<program_vars, fn_tracks, fn_target, fn_model, fn_resp, fn_text,
                   fn_prev>>

SpecDuration == InitDuration /\ [][CallExtractDuration]_vars

\* the word is a number
IsNumberWord(w) == Chars(w) # <<>> /\ \A i \in DOMAIN Chars(w) : IsDigit(Chars(w)[i])

\* the numbers n of the phrases "<n> <unit>" of the text, in text order, a
\* unit being one of the given words in any case
PhraseNumbers(words, unit_words) ==
    LET at == {i \in 1..(Len(words) - 1) :
                  /\ IsNumberWord(words[i])
                  /\ LowerChars(words[i + 1]) \in {Chars(u) : u \in unit_words}}
        RECURSIVE Sorted(_)
        Sorted(S) == IF S = {} THEN <<>>
                     ELSE LET x == CHOOSE y \in S : \A z \in S : y <= z
                          IN  <<x>> \o Sorted(S \ {x})
    IN  [k \in DOMAIN Sorted(at) |-> ParseInt(Chars(words[Sorted(at)[k]]))]

HourPhrases(words)   == PhraseNumbers(words, {"hour", "hours"})
MinutePhrases(words) == PhraseNumbers(words, {"min", "minute", "minutes"})
SongPhrases(words)   == PhraseNumbers(words, {"song", "songs", "track", "tracks"})

\* C14: extract_duration returns n*60 for the first "<n> hour" phrase, else n
\* for the first "<n> minute" phrase, else n*4 for the first "<n> song/track"
\* phrase, wherever the phrases sit, and 30 exactly when the text has none of
\* them: a number followed by another word is not read as hours or minutes.
C14_DurationOfFirstPhrase ==
    fn_called = "extract_duration" =>
        fn_ret = IF HourPhrases(fn_text) # <<>> THEN HourPhrases(fn_text)[1] * 60
                 ELSE IF MinutePhrases(fn_text) # <<>> THEN MinutePhrases(fn_text)[1]
                 ELSE IF SongPhrases(fn_text) # <<>> THEN SongPhrases(fn_text)[1] * 4
                 ELSE 30

(***************************************************************************)
(* MoodAnalyzer: emojis. An emoji is one character, written {name}.        *)
(***************************************************************************)
\* the four strings of _heuristic_emoji_analysis, as the sets of their emojis
positive_energetic ==
    {"{sunglasses}", "{star_struck}", "{partying}", "{tada}", "{muscle}", "{fire}",
     "{zap}", "{rocket}", "{confetti}", "{glowing_star}", "{boom}", "{dart}"}
positive_calm ==
    {"{blush}", "{relaxed}", "{relieved}", "{smiling_hearts}", "{two_hearts}",
     "{red_heart}", "{cherry_blossom}", "{hibiscus}", "{sparkling_heart}",
     "{innocent}", "{pray}", "{sparkles}"}
negative_energetic ==
    {"{angry}", "{rage}", "{cursing}", "{imp}", "{anger}", "{zap}", "{triumph}",
     "{fire}", "{boom}", "{pouting_cat}"}
negative_calm ==
    {"{cry}", "{sob}", "{disappointed}", "{pensive}", "{broken_heart}", "{sleepy}",
     "{sleeping}", "{sweat}", "{pleading}", "{cold_sweat}"}

\* emoji.EMOJI_DATA, as far as the model's texts go
EMOJI_DATA ==
    positive_energetic \cup positive_calm \cup negative_energetic \cup negative_calm
        \cup {"{heart_eyes}"}

\* `char in emoji.EMOJI_DATA`
IsEmoji(c) == c \in EMOJI_DATA

\* extract_emojis: the emojis of the text, in text order
ExtractEmojis(words) == SelectSeq(TextChars(words), IsEmoji)

\* ''.join(char for char in query if not self._is_emoji(char)).strip()
TextWithoutEmojis(words) ==
    RStripChars(LStripChars(SelectSeq(TextChars(words), LAMBDA c : ~IsEmoji(c))))

\* _heuristic_emoji_analysis: valence and energy, in tenths
HeuristicEmojiAnalysis(emo) ==
    IF emo \in positive_energetic THEN [valence |-> 8, energy |-> 8]
    ELSE IF emo \in positive_calm THEN [valence |-> 8, energy |-> 3]
    ELSE IF emo \in negative_energetic THEN [valence |-> 2, energy |-> 8]
    ELSE IF emo \in negative_calm THEN [valence |-> 2, energy |-> 3]
    ELSE [valence |-> 5, energy |-> 5]

\* a number num/den
Rat(num, den) == [num |-> num, den |-> den]

RECURSIVE CacheAfter(_, _)
\* the cache after the for loop of analyze_emoji_sentiment
CacheAfter(cache, emojis) ==
    IF emojis = <<>> THEN cache
    ELSE IF Head(emojis) \in DOMAIN cache THEN CacheAfter(cache, Tail(emojis))
    ELSE CacheAfter((Head(emojis) :> HeuristicEmojiAnalysis(Head(emojis))) @@ cache,
                    Tail(emojis))

RECURSIVE SumTenths(_, _, _)
\* total_valence or total_energy, in tenths: a cached value if there is one
SumTenths(cache, emojis, field) ==
    IF emojis = <<>> THEN 0
    ELSE (IF Head(emojis) \in DOMAIN cache THEN cache[Head(emojis)][field]
          ELSE HeuristicEmojiAnalysis(Head(emojis))[field])
         + SumTenths(CacheAfter(cache, <<Head(emojis)>>), Tail(emojis), field)

\* analyze_emoji_sentiment
AnalyzeEmojiSentiment(cache, emojis) ==
    IF emojis = <<>> THEN [valence |-> Rat(5, 10), energy |-> Rat(5, 10)]
    ELSE [valence |-> Rat(SumTenths(cache, emojis, "valence"), 10 * Len(emojis)),
          energy  |-> Rat(SumTenths(cache, emojis, "energy"), 10 * Len(emojis))]

(***************************************************************************)
(* MoodAnalyzer.extract_languages                                          *)
(***************************************************************************)
\* language_keywords, in its order; a keyword in another script is written
\* {language:script} and taken as one character
language_keywords ==
    << [lang |-> "hindi",    keywords |-> {"hindi", "bollywood", "bhojpuri", "{hindi:devanagari}"}],
       [lang |-> "english",  keywords |-> {"english", "hollywood", "western"}],
       [lang |-> "punjabi",  keywords |-> {"punjabi", "{punjabi:gurmukhi}"}],
       [lang |-> "bengali",  keywords |-> {"bengali", "bangla", "{bengali:bengali}"}],
       [lang |-> "tamil",    keywords |-> {"tamil", "{tamil:tamil}"}],
       [lang |-> "telugu",   keywords |-> {"telugu", "{telugu:telugu}"}],
       [lang |-> "marathi",  keywords |-> {"marathi", "{marathi:devanagari}"}],
       [lang |-> "gujarati", keywords |-> {"gujarati", "{gujarati:gujarati}"}],
       [lang |-> "spanish",  keywords |-> {"spanish", "espa{n~}ol", "latino"}],
       [lang |-> "french",   keywords |-> {"french", "fran{c,}ais"}],
       [lang |-> "korean",   keywords |-> {"korean", "k-pop", "kpop", "{korean:hangul}"}],
       [lang |-> "japanese", keywords |-> {"japanese", "j-pop", "jpop", "{japanese:kanji}"}] >>

\* any(keyword in text_lower for keyword in keywords)
AnyKeyword(text_lower, keywords) ==
    \E kw \in keywords : ContainsChars(text_lower, Chars(kw))

DefaultLanguages == <<"hindi", "english">>

\* the for loop over language_keywords
KeywordLanguages(words) ==
    LET text_lower == LowerText(words)
        hit(entry) == AnyKeyword(text_lower, entry.keywords)
        hits == SelectSeq(language_keywords, hit)
    IN  [i \in DOMAIN hits |-> hits[i].lang]

ExtractLanguages(words) ==
    LET languages == KeywordLanguages(words)
    IN  IF languages = <<>> THEN DefaultLanguages ELSE languages

\* lang_mapping.get: the language of a code, "" without one
lang_mapping(code) ==
    CASE code = "hi" -> "hindi"    [] code = "en" -> "english"
      [] code = "pa" -> "punjabi"  [] code = "bn" -> "bengali"
      [] code = "ta" -> "tamil"    [] code = "te" -> "telugu"
      [] code = "mr" -> "marathi"  [] code = "gu" -> "gujarati"
      [] code = "es" -> "spanish"  [] code = "fr" -> "french"
      [] code = "ko" -> "korean"   [] code = "ja" -> "japanese"
      [] OTHER -> ""

\* languages after the detected language of the text is looked at; answer is
\* what the language pipeline did: kind "none" (not called), "raise", or
\* "label" with its label
WithDetectedLanguage(languages, answer) ==
    IF answer.kind # "label" THEN languages
    ELSE LET lang == lang_mapping(LowerStr(answer.label))
         IN  IF lang # "" /\ lang \notin Range(languages)
             THEN Append(languages, lang) ELSE languages

(***************************************************************************)
(* MoodAnalyzer._fallback_analysis and the tables of analyze_query.        *)
(* Confidences and scores are in hundredths.                               *)
(***************************************************************************)
\* mood_keywords, in its order
mood_keywords ==
    << [mood |-> "happy",     keywords |-> {"happy", "joy", "cheerful", "upbeat", "good", "great", "amazing"}],
       [mood |-> "sad",       keywords |-> {"sad", "depressed", "down", "blue", "melancholy", "cry"}],
       [mood |-> "angry",     keywords |-> {"angry", "mad", "furious", "rage", "hate", "annoyed"}],
       [mood |-> "excited",   keywords |-> {"excited", "thrilled", "pumped", "energetic", "party"}],
       [mood |-> "calm",      keywords |-> {"calm", "peaceful", "relax", "chill", "serene", "quiet"}],
       [mood |-> "romantic",  keywords |-> {"love", "romantic", "valentine", "date", "heart"}],
       [mood |-> "nostalgic", keywords |-> {"nostalgic", "memories", "old", "past", "remember"}] >>

FallbackConfidence == 60

\* the for loop of _fallback_analysis: the first mood one of whose keywords
\* is in the text
DetectedMood(words) ==
    LET text_lower == LowerText(words)
        hit(entry) == AnyKeyword(text_lower, entry.keywords)
        hits == SelectSeq(mood_keywords, hit)
    IN  IF hits = <<>> THEN "neutral" ELSE hits[1].mood

FallbackAnalysis(words) ==
    LET detected_mood == DetectedMood(words)
    IN  [mood       |-> detected_mood,
         emotion    |-> detected_mood,
         sentiment  |-> IF detected_mood \in {"happy", "excited", "romantic"}
                        THEN "positive" ELSE "neutral",
         confidence |-> FallbackConfidence]

\* mood_mapping.get(label, "neutral")
mood_mapping(label) ==
    CASE label \in {"joy", "happiness"} -> "happy"
      [] label \in {"excitement", "surprise", "amazement", "wonder"} -> "excited"
      [] label \in {"sadness", "grief", "disappointment"} -> "sad"
      [] label \in {"anger", "annoyance", "rage"} -> "angry"
      [] label \in {"fear", "nervousness", "worry"} -> "anxious"
      [] label \in {"love", "caring", "desire"} -> "romantic"
      [] label \in {"calm", "peaceful", "relaxed"} -> "calm"
      [] label \in {"energetic", "enthusiasm"} -> "energetic"
      [] OTHER -> "neutral"

high_energy_emotions == {"joy", "excitement", "anger", "happy", "excited"}

\* Config.get_emotion_genres
GetEmotionGenres(emotion) ==
    CASE emotion = "happy"     -> <<"pop", "dance", "bollywood", "reggae", "funk">>
      [] emotion = "sad"       -> <<"ballad", "blues", "indie", "melancholic", "ghazal">>
      [] emotion = "angry"     -> <<"rock", "metal", "punk", "rap", "aggressive">>
      [] emotion = "excited"   -> <<"electronic", "dance", "pop", "party", "energetic">>
      [] emotion = "calm"      -> <<"ambient", "classical", "instrumental", "chill", "meditation">>
      [] emotion = "romantic"  -> <<"romantic", "love songs", "r&b", "slow", "ballad">>
      [] emotion = "nostalgic" -> <<"retro", "oldies", "vintage", "classic", "throwback">>
      [] emotion = "energetic" -> <<"workout", "high energy", "dance", "electronic", "upbeat">>
      [] emotion = "neutral"   -> <<"pop", "alternative", "indie">>
      [] OTHER                 -> <<"pop", "bollywood">>

\* 0.8 / 0.2 / 0.5 by the sentiment label, in tenths
TextValence(sentiment) ==
    IF sentiment = "positive" THEN 8 ELSE IF sentiment = "negative" THEN 2 ELSE 5

\* (text * 0.6) + (emoji * 0.4), text in tenths
Combined(text_tenths, emoji) ==
    Rat(text_tenths * 6 * emoji.den + 40 * emoji.num, 100 * emoji.den)

(***************************************************************************)
(* The classifiers: what loading them and calling them can do.             *)
(***************************************************************************)
NotCalled == [kind |-> "none", label |-> "", score |-> 0]
Raises    == [kind |-> "raise", label |-> "", score |-> 0]
Label(label, score) == [kind |-> "label", label |-> label, score |-> score]

\* initialize: every pipeline loads, or the load of one of them raises
LoadOutcomes == {"loaded", "fails_sentiment", "fails_emotion", "fails_language"}

SentimentAnswers == {Raises, Label("positive", 90), Label("neutral", 90)}

EmotionAnswers ==
    {Raises} \cup {Label(l, sc) : l \in {"sadness", "Love", "curiosity"},
                                 sc \in {60, 70, 80, 90}}

LanguageAnswers == {Raises, Label("EN", 90), Label("fr", 90)}

\* the fields of the analyzer after initialize()
AfterInitialize(load) ==
    IF initialized
    THEN [initialized |-> TRUE, sentiment |-> sentiment_pipeline,
          emotion |-> emotion_pipeline, language |-> language_pipeline]
    ELSE [initialized |-> load = "loaded",
          sentiment   |-> sentiment_pipeline \/ load # "fails_sentiment",
          emotion     |-> emotion_pipeline \/ load \in {"fails_language", "loaded"},
          language    |-> language_pipeline \/ load = "loaded"]

(***************************************************************************)
(* MoodAnalyzer.analyze_query                                              *)
(***************************************************************************)
\* the else branch of line 241 is taken: the three pipelines are there
UsesPipelines(st) == st.initialized /\ st.sentiment /\ st.emotion /\ st.language

\* text_analysis with a failing emotion pipeline leaving the sentiment in
TextAnalysisKeepsSentiment(fallback, st, sent, emo) ==
    IF UsesPipelines(st) /\ sent.kind = "label"
    THEN [sentiment |-> sent,
          emotion   |-> IF emo.kind = "label" THEN emo ELSE Label("neutral", 0)]
    ELSE fallback

\* text_analysis: the answers of the sentiment and emotion pipelines, and
\* the fallback analysis (fallback) without the pipelines or when one of
\* them raises
TextAnalysis(fallback, st, sent, emo) ==
    IF UsesPipelines(st) /\ sent.kind = "label" /\ emo.kind = "label"
    THEN [sentiment |-> sent, emotion |-> emo]
    ELSE fallback

\* isinstance(text_analysis.get("sentiment"), dict): the sentiment is a
\* pipeline's answer in the dictionary of line 258 and a str in the fallback's
IsModelResult(text_analysis) == DOMAIN text_analysis = {"sentiment", "emotion"}

\* what the sentiment pipeline can do in a call: it is called with the
\* three pipelines there
SentimentCalls(st) == IF UsesPipelines(st) THEN SentimentAnswers ELSE {NotCalled}

\* the emotion pipeline is called after the sentiment pipeline has answered
EmotionCalls(st, sent) ==
    IF UsesPipelines(st) /\ sent.kind = "label" THEN EmotionAnswers ELSE {NotCalled}

\* the language pipeline is called on a text that is not empty
LanguageCalls(words, st) ==
    IF TextWithoutEmojis(words) # <<>> /\ st.initialized /\ st.language
    THEN LanguageAnswers ELSE {NotCalled}

\* what analyze_query takes from the query alone: the emojis and their
\* sentiment, the duration, the keyword languages, the fallback analysis
QuerySignals(words, cache) ==
    [emojis          |-> ExtractEmojis(words),
     emoji_sentiment |-> AnalyzeEmojiSentiment(cache, ExtractEmojis(words)),
     duration        |-> ExtractDuration(words),
     languages       |-> ExtractLanguages(words),
     fallback        |-> FallbackAnalysis(words)]

\* the dictionary analyze_query returns
AnalysisResult(signals, st, sent, emo, lang) ==
    LET text_analysis   == TextAnalysis(signals.fallback, st, sent, emo)
        emoji_sentiment == signals.emoji_sentiment
        languages       == WithDetectedLanguage(signals.languages, lang)
        is_model        == IsModelResult(text_analysis)
        label           == IF is_model THEN LowerStr(text_analysis.emotion.label) ELSE ""
        primary_mood    == IF is_model THEN mood_mapping(label) ELSE text_analysis.mood
        confidence      == IF is_model THEN text_analysis.emotion.score
                           ELSE text_analysis.confidence
        sentiment       == IF is_model THEN text_analysis.sentiment.label
                           ELSE text_analysis.sentiment
    IN  [mood             |-> primary_mood,
         emotion          |-> IF is_model THEN text_analysis.emotion.label
                              ELSE primary_mood,
         sentiment        |-> sentiment,
         confidence       |-> confidence,
         genres           |-> GetEmotionGenres(primary_mood),
         languages        |-> languages,
         duration_minutes |-> signals.duration,
         num_songs        |-> NumSongs(signals.duration),
         energy_level     |->
            IF is_model
            THEN Combined(IF label \in high_energy_emotions THEN 8 ELSE 4,
                          emoji_sentiment.energy)
            ELSE Rat(5 * emoji_sentiment.energy.den + 5 * emoji_sentiment.energy.num,
                     10 * emoji_sentiment.energy.den),
         valence          |-> Combined(TextValence(sentiment), emoji_sentiment.valence),
         emojis           |-> signals.emojis,
         text_analysis    |-> text_analysis,
         emoji_analysis   |-> emoji_sentiment]

MaxQueryWords == 2    \* most words in a text given to analyze_query

\* the words the query texts are made of
QueryWords ==
    {"{heart_eyes}", "{sunglasses}", "great", "sad", "hindi", "tamil",
     "2", "40", "minutes", "Hours"}

\* the texts analyze_query is tried on
QueryTexts ==
    SeqsUpTo(QueryWords, MaxQueryWords)
        \cup {<<"40", "minutes", "playlist", "hindi", "songs">>}

InitAnalyze ==
    /\ NoCall
    /\ fn_text \in QueryTexts
    /\ fn_model = FALSE
    /\ fn_tracks = <<>> /\ fn_target = 0 /\ fn_resp = NoResp
    /\ fn_called = "" /\ fn_ret = <<>> /\ fn_prev = <<>>

\* initialize(), called on its own (analyze_query calls it too)
Initialize ==
    /\ fn_called = ""
    /\ ~initialized
    /\ \E load \in LoadOutcomes :
         LET st == AfterInitialize(load)
         IN  /\ initialized' = st.initialized
             /\ sentiment_pipeline' = st.sentiment
             /\ emotion_pipeline' = st.emotion
             /\ language_pipeline' = st.language
    /\ UNCHANGED <<handler_vars, model, world_vars, call_vars, run_vars, fn_vars,
                   emoji_emotion_cache, server_vars>>

AnalyzeQuery ==
    /\ fn_called = ""
    /\ LET signals == QuerySignals(fn_text, emoji_emotion_cache)
       IN  \E load \in (IF initialized THEN {"loaded"} ELSE LoadOutcomes) :
             LET st == AfterInitialize(load)
             IN  /\ initialized' = st.initialized
                 /\ sentiment_pipeline' = st.sentiment
                 /\ emotion_pipeline' = st.emotion
                 /\ language_pipeline' = st.language
                 /\ \E sent \in SentimentCalls(st),
                       lang \in LanguageCalls(fn_text, st) :
                      \E emo \in EmotionCalls(st, sent) :
                         /\ fn_resp' = [sentiment |-> sent, emotion |-> emo,
                                        language |-> lang]
                         /\ fn_ret' = AnalysisResult(signals, st, sent, emo, lang)
    /\ emoji_emotion_cache' = CacheAfter(emoji_emotion_cache, ExtractEmojis(fn_text))
    /\ fn_called' = "analyze_query"
    /\ UNCHANGED <<handler_vars, model, world_vars, call_vars, run_vars,
                   fn_tracks, fn_target, fn_model, fn_text, fn_prev, server_vars>>

NextAnalyze == Initialize \/ AnalyzeQuery

SpecAnalyze == InitAnalyze /\ [][NextAnalyze]_vars

(***************************************************************************)
(* Properties of analyze_query.                                            *)
(***************************************************************************)
\* C15: the song count of the result is its duration divided by 4 minutes,
\* rounded down, and clamped to 3..50; 40 minutes give 10 songs.
C15_SongCountClamped ==
    fn_called = "analyze_query" =>
        LET d == fn_ret.duration_minutes
            n == fn_ret.num_songs
        IN  /\ n >= 3 /\ n <= 50
            /\ d < 12 => n = 3
            /\ d >= 200 => n = 50
            /\ (d >= 12 /\ d < 200) => (4 * n <= d /\ d < 4 * n + 4)
            /\ d = 40 => n = 10

\* the scenario of the 40 minutes playlist of hindi songs
C15_Witness ==
    /\ fn_called = "analyze_query"
    /\ fn_text = <<"40", "minutes", "playlist", "hindi", "songs">>
    /\ fn_ret.duration_minutes = 40
    /\ fn_ret.num_songs = 10

\* C16: the languages of the result are the languages whose keyword occurs
\* in the text, in table order, and hindi, english when none occurs: never a
\* language that the language pipeline detected.
C16_LanguagesFromKeywordsOnly ==
    fn_called = "analyze_query" =>
        fn_ret.languages = IF KeywordLanguages(fn_text) = <<>>
                           THEN <<"hindi", "english">>
                           ELSE KeywordLanguages(fn_text)

\* the emoji table of the specification, as far as it is given: the emoji of
\* its scenario is romantic
SpecEmojiMood(emo) == IF emo = "{heart_eyes}" THEN "romantic" ELSE "neutral"

\* the first emoji of the text with a mood in that table gives it
HasEmojiMood(words) == \E i \in DOMAIN ExtractEmojis(words) :
                          SpecEmojiMood(ExtractEmojis(words)[i]) # "neutral"

\* the mood of the result is the classifier's
ModelOverrides == fn_resp.emotion.kind = "label"

\* C17: when the text has an emoji with a non-neutral mood and the classifier
\* does not override, the mood is that emoji's and the confidence is 0.8,
\* with or without a mood keyword in the text.
C17_EmojiMoodWins ==
    (fn_called = "analyze_query" /\ ~ModelOverrides /\ HasEmojiMood(fn_text)) =>
        LET emojis == ExtractEmojis(fn_text)
            first  == CHOOSE i \in DOMAIN emojis :
                        /\ SpecEmojiMood(emojis[i]) # "neutral"
                        /\ \A j \in 1..(i - 1) : SpecEmojiMood(emojis[j]) = "neutral"
        IN  /\ fn_ret.mood = SpecEmojiMood(emojis[first])
            /\ fn_ret.confidence = 80

\* the score of a mood: its keywords in the text, plus 2 for its name
MoodScore(entry, text_lower) ==
    Cardinality({kw \in entry.keywords : ContainsChars(text_lower, Chars(kw))})
        + (IF ContainsChars(text_lower, Chars(entry.mood)) THEN 2 ELSE 0)

\* the mood of the highest score, the earlier one of equal scores, neutral
\* without a hit
BestScoredMood(words) ==
    LET text_lower == LowerText(words)
        best == CHOOSE i \in DOMAIN mood_keywords :
                   /\ \A j \in DOMAIN mood_keywords :
                        MoodScore(mood_keywords[j], text_lower)
                            <= MoodScore(mood_keywords[i], text_lower)
                   /\ \A j \in 1..(i - 1) :
                        MoodScore(mood_keywords[j], text_lower)
                            < MoodScore(mood_keywords[i], text_lower)
    IN  IF MoodScore(mood_keywords[best], text_lower) = 0 THEN "neutral"
        ELSE mood_keywords[best].mood

\* C18: without an emoji mood and without the classifier, the mood is the
\* mood of the highest keyword score, a later mood beating an earlier one
\* of a lower score.
C18_HighestScoreWins ==
    (fn_called = "analyze_query" /\ ~ModelOverrides /\ ~HasEmojiMood(fn_text)) =>
        fn_ret.mood = BestScoredMood(fn_text)

\* C19: the classifier's mood replaces the rule-based mood only above a
\* confidence of 0.6, and of 0.8 when an emoji gave a mood: at or below the
\* threshold the mood and confidence are the rule-based ones.
C19_OverrideOnlyAboveThreshold ==
    (fn_called = "analyze_query" /\ ModelOverrides) =>
        LET threshold == IF HasEmojiMood(fn_text) THEN 80 ELSE 60
        IN  fn_resp.emotion.score <= threshold =>
                /\ fn_ret.mood = DetectedMood(fn_text)
                /\ fn_ret.confidence = 60

\* the classifiers failed in the call: they did not load, one is missing,
\* or the sentiment or the emotion pipeline raised
ModelsFailed ==
    \/ ~initialized
    \/ ~(sentiment_pipeline /\ emotion_pipeline /\ language_pipeline)
    \/ fn_resp.sentiment.kind = "raise"
    \/ fn_resp.emotion.kind = "raise"

\* C20, as claimed: if loading fails, a pipeline is missing, or a sentiment,
\* emotion or language pipeline call raises, analyze_query returns the mood
\* and confidence of the fallback analysis (a classifier that answered being
\* taken at a confidence above 0.8, where no threshold keeps its mood out).
C20_AnyFailureGivesFallbackMood ==
    (/\ fn_called = "analyze_query"
     /\ ModelsFailed \/ fn_resp.language.kind = "raise"
     /\ fn_resp.emotion.kind = "label" => fn_resp.emotion.score > 80) =>
        /\ fn_ret.mood = DetectedMood(fn_text)
        /\ fn_ret.confidence = 60

\* C20, amended: analyze_query returns in each of these cases; the mood and
\* confidence are those of the fallback analysis when loading fails, a
\* pipeline is missing, or the sentiment or emotion call raises, and a
\* raising language pipeline call leaves the languages as the keywords gave
\* them.
C20_FailureReturnsFallback ==
    fn_called = "analyze_query" =>
        /\ {"mood", "confidence", "languages"} \subseteq DOMAIN fn_ret
        /\ ModelsFailed =>
             /\ fn_ret.mood = DetectedMood(fn_text)
             /\ fn_ret.confidence = 60
        /\ fn_resp.language.kind = "raise" =>
             fn_ret.languages = ExtractLanguages(fn_text)

\* the sentiment pipeline answered, the emotion pipeline raised, and the
\* mood is the one of a keyword of the text
C20_Witness ==
    /\ fn_called = "analyze_query"
    /\ fn_resp.sentiment.kind = "label"
    /\ fn_resp.emotion.kind = "raise"
    /\ fn_ret.mood = "sad"
    /\ fn_ret.confidence = 60

\* two numbers num/den are equal
RatEq(a, b) == a.num * b.den = b.num * a.den

\* the result for the text "sad" of an analyzer without classifiers
SadReference ==
    AnalysisResult(QuerySignals(<<"sad">>, <<>>),
                   AfterInitialize("fails_sentiment"), NotCalled, NotCalled, NotCalled)

\* C21: energy and valence are a function of the mood alone: a result of mood
\* sad has energy 0.2 and valence 0.2, one of mood excited 0.9 and 0.9, and
\* every result of mood sad has the energy and valence of every other one,
\* here the one for the text "sad" (a classifier that answered being taken
\* at a confidence above 0.8, where its mood is the final one).
C21_EnergyValenceByMoodTable ==
    (/\ fn_called = "analyze_query"
     /\ fn_resp.emotion.kind = "label" => fn_resp.emotion.score > 80) =>
        /\ fn_ret.mood = "sad" =>
             /\ RatEq(fn_ret.energy_level, Rat(2, 10))
             /\ RatEq(fn_ret.valence, Rat(2, 10))
             /\ RatEq(fn_ret.energy_level, SadReference.energy_level)
             /\ RatEq(fn_ret.valence, SadReference.valence)
        /\ fn_ret.mood = "excited" =>
             /\ RatEq(fn_ret.energy_level, Rat(9, 10))
             /\ RatEq(fn_ret.valence, Rat(9, 10))

(***************************************************************************)
(* main.py: the MCP server, its module globals and its tools               *)
(***************************************************************************)
MaxRequests == 3    \* tool calls served in SpecServer

\* what a tool returns: a list of one TextContent, named by its message
TextResponse(message) == [type |-> "text", message |-> message, url |-> ""]

\* the success response of generate_playlist, with the playlist's URL
SuccessResponse(url) == [type |-> "text", message |-> "created playlist", url |-> url]

\* an exception that leaves the tool
Propagated(exc) == [type |-> "exception", message |-> exc, url |-> ""]

\* what a call returned, or which exception it raised
Returned(value) == [kind |-> "return", value |-> value]
Raised(exc)     == [kind |-> "raise", value |-> exc]

\* the module globals the tools assign
Globals(cr, tok, cl, gen) ==
    [cred |-> cr, token |-> tok, client |-> cl, playlist_generator |-> gen]

\* initialize_credentials: True, and cred and scope set, when both
\* environment variables are set
InitializeCredentials == env_credentials

\* cred after `if cred is None: initialize_credentials()`
CredAfterInitialize == cred \/ InitializeCredentials

\* run_server up to server.run_async: the credentials are initialized, the
\* callback server is started, the tools are registered and served
RunServer ==
    /\ server = "starting"
    /\ cred' = InitializeCredentials
    /\ server' = "serving"
    /\ UNCHANGED <<handler_vars, model, world_vars, call_vars, run_vars, fn_vars,
                   analyzer_vars, env_credentials, token, client,
                   playlist_generator, requests>>

\* `not s or not s.strip()` with no check of the stripped text
BlankOnlyWhenEmpty(s) == s = ""

\* `not s or not s.strip()`
Blank(s) == s = "" \/ Strip(s) = ""

\* the step `if cred is None: initialize_credentials()` takes
InitializeSteps == IF cred THEN <<>> ELSE <<"initialize_credentials">>

\* authenticate_spotify: the authorisation URL, or a message when the
\* credentials cannot be initialized
AuthenticateSpotify ==
    [globals  |-> Globals(CredAfterInitialize, token, client, playlist_generator),
     steps    |-> InitializeSteps,
     response |-> IF CredAfterInitialize THEN TextResponse("authentication url")
                  ELSE TextResponse("credentials missing")]

\* cred.request_user_token(code): a token, or tk.BadRequest, tk.HTTPError or
\* another exception
ExchangeOutcomes ==
    IF upstream = "reliable" THEN {"token"}
    ELSE {"token", "BadRequest", "HTTPError", "Exception"}

\* what handle_spotify_callback answers when the token request raises
ExchangeErrorResponse(exc) ==
    CASE exc = "BadRequest" -> TextResponse("invalid authorization code")
      [] exc = "HTTPError"  -> TextResponse("spotify api error during authentication")
      [] OTHER              -> TextResponse("authentication failed")

\* handle_spotify_callback(code)
HandleSpotifyCallback(code, exchange, user_answered) ==
    IF Blank(code)
    THEN [globals  |-> Globals(cred, token, client, playlist_generator),
          steps    |-> <<>>,
          response |-> TextResponse("no authorization code")]
    ELSE IF ~CredAfterInitialize
    THEN [globals  |-> Globals(cred, token, client, playlist_generator),
          steps    |-> InitializeSteps,
          response |-> TextResponse("credentials not initialized")]
    ELSE IF exchange # "token"
    THEN [globals  |-> Globals(TRUE, token, client, playlist_generator),
          steps    |-> InitializeSteps \o <<"request_user_token">>,
          response |-> ExchangeErrorResponse(exchange)]
    ELSE [globals  |-> Globals(TRUE, token + 1, token + 1, Generator(token + 1, 0)),
          steps    |-> InitializeSteps \o <<"request_user_token", "current_user">>,
          response |-> IF user_answered
                       THEN TextResponse("authentication successful")
                       ELSE TextResponse("authentication successful, no user info")]

\* the parameters of PlaylistGenerator.create_playlist, none with a default
CreatePlaylistParameters == {"prompt", "duration_minutes", "playlist_name"}

\* the keyword arguments generate_spotify_playlist passes to it
GeneratePlaylistKeywords == {"analysis_result", "duration_minutes", "playlist_name"}

\* a call by keywords binds when every keyword is a parameter and every
\* parameter without a default has its keyword
Binds(keywords, parameters) == keywords = parameters

\* playlist_generator.create_playlist(analysis_result=..., ...): a TypeError
\* when the keywords do not bind; else the call is entered, where Step 1
\* calls is_authenticated() on the tk.Spotify client the generator was built
\* over, which has no such method
CreatePlaylistFromServer(generator) ==
    IF generator = NoGenerator THEN Raised("AttributeError")
    ELSE IF ~Binds(GeneratePlaylistKeywords, CreatePlaylistParameters)
    THEN Raised("TypeError")
    ELSE Raised("AttributeError")

\* the try block around create_playlist without its except clauses
PlaylistResponsePropagating(outcome) ==
    IF outcome.kind = "return" THEN SuccessResponse(outcome.value)
    ELSE Propagated(outcome.value)

\* the try block around create_playlist: the success response, or a message
\* for tk.HTTPError and one for every other exception
PlaylistResponse(outcome) ==
    IF outcome.kind = "return" THEN SuccessResponse(outcome.value)
    ELSE IF outcome.value = "HTTPError" THEN TextResponse("spotify api error")
    ELSE TextResponse("error creating playlist")

\* `if not client or not playlist_generator` never taken
NeverNeedsAuthentication(cl, gen) == FALSE

\* `if not client or not playlist_generator`
NeedsAuthentication(cl, gen) == cl = 0 \/ gen = NoGenerator

\* analyze_prompt: the analysis, or the basic analysis with its
\* analysis_error when the sentiment analysis or the duration parsing raises
AnalyzePrompt(analysed) ==
    IF analysed THEN "analyze_prompt" ELSE "analyze_prompt: analysis_error"

\* generate_spotify_playlist(prompt, duration_minutes): refresh_due is
\* token.is_expiring and token.refresh_token at the time of the call,
\* refreshed whether cred.refresh_user_token answers, analysed whether the
\* prompt analysis goes through
GenerateSpotifyPlaylist(p, duration, refresh_due, refreshed, analysed) ==
    LET unchanged  == Globals(cred, token, client, playlist_generator)
        refreshing == token # 0 /\ refresh_due /\ cred
        new_gen    == Generator(playlist_generator.spotify, token + 1)
        gen        == IF refreshing THEN new_gen ELSE playlist_generator
    IN  IF Blank(p)
        THEN [globals |-> unchanged, steps |-> <<>>,
              response |-> TextResponse("prompt required")]
        ELSE IF duration <= 0 \/ duration > 600
        THEN [globals |-> unchanged, steps |-> <<>>,
              response |-> TextResponse("duration out of range")]
        ELSE IF NeedsAuthentication(client, playlist_generator)
        THEN [globals  |-> AuthenticateSpotify.globals,
              steps    |-> AuthenticateSpotify.steps,
              response |-> TextResponse("authenticate first")]
        ELSE IF refreshing /\ ~refreshed
        THEN [globals |-> unchanged, steps |-> <<"refresh_user_token">>,
              response |-> TextResponse("token refresh failed")]
        ELSE [globals  |-> IF refreshing
                           THEN Globals(cred, token + 1, token + 1, new_gen)
                           ELSE unchanged,
              steps    |-> (IF refreshing THEN <<"refresh_user_token">> ELSE <<>>)
                               \o <<AnalyzePrompt(analysed), "create_playlist">>,
              response |-> PlaylistResponse(CreatePlaylistFromServer(gen))]

\* a tool call as the server has served it: the globals it found, the steps
\* it took, and what it answered
ToolRequest(tool, arg, duration, outcome) ==
    [tool |-> tool, arg |-> arg, duration |-> duration,
     before   |-> Globals(cred, token, client, playlist_generator),
     steps    |-> outcome.steps,
     response |-> outcome.response]

\* the server serves a tool call
Serve(tool, arg, duration, outcome) ==
    /\ server = "serving" /\ Len(requests) < MaxRequests
    /\ cred' = outcome.globals.cred
    /\ token' = outcome.globals.token
    /\ client' = outcome.globals.client
    /\ playlist_generator' = outcome.globals.playlist_generator
    /\ requests' = Append(requests, ToolRequest(tool, arg, duration, outcome))
    /\ UNCHANGED <<handler_vars, model, world_vars, call_vars, run_vars, fn_vars,
                   analyzer_vars, env_credentials, server>>

Codes           == {"", "   ", " abc "}
ServerPrompts   == {"", "   ", "Night Drive"}
ServerDurations == {0, 60, 600, 601}

AuthenticateTool ==
    \E outcome \in {AuthenticateSpotify} : Serve("authenticate", "", 0, outcome)

HandleCallbackTool ==
    \E code \in Codes, exchange \in ExchangeOutcomes, user_answered \in CallAnswers :
        Serve("handle_callback", code, 0,
              HandleSpotifyCallback(code, exchange, user_answered))

GeneratePlaylistTool ==
    \E p \in ServerPrompts, duration \in ServerDurations,
       refresh_due \in BOOLEAN, refreshed \in CallAnswers, analysed \in BOOLEAN :
        Serve("generate_playlist", p, duration,
              GenerateSpotifyPlaylist(p, duration, refresh_due, refreshed, analysed))

\* main.py is started, with or without the credentials in its environment
InitServer ==
    /\ sp_client = FALSE /\ sp_token = FALSE /\ app_client = FALSE
    /\ model = FALSE
    /\ catalog = "rich" /\ upstream \in {"reliable", "flaky"} /\ playlists = <<>>
    /\ pc = "idle" /\ prompt = "" /\ duration_minutes = 0
    /\ search_queries = <<>> /\ ok = <<>> /\ all_tracks = <<>>
    /\ unique_tracks = <<>> /\ fb_issued = <<>> /\ fb_tracks = <<>>
    /\ selected_tracks = <<>> /\ result = NoResult
    /\ runs = <<>> /\ runs_left = 0
    /\ NoHelperCall
    /\ env_credentials \in BOOLEAN
    /\ server = "starting" /\ cred = FALSE
    /\ token = 0 /\ client = 0 /\ playlist_generator = NoGenerator
    /\ requests = <<>>

NextServer == RunServer \/ AuthenticateTool \/ HandleCallbackTool \/ GeneratePlaylistTool

SpecServer == InitServer /\ [][NextServer]_vars

\* the last tool call served
LastRequest == requests[Len(requests)]

\* the module globals now
GlobalsNow == Globals(cred, token, client, playlist_generator)

(***************************************************************************)
(* Properties of the server.                                               *)
(***************************************************************************)
\* the text is empty or made of blanks only
OnlyBlanks(text) == \A i \in DOMAIN Chars(text) : IsSpace(Chars(text)[i])

\* C22: a generate_playlist request with an empty or whitespace-only prompt
\* is answered with the prompt message before any step: no token refresh, no
\* prompt analysis, no call into the playlist generator, and client, token
\* and playlist_generator stay as they were, authenticated or not.
C22_BlankPromptRejected ==
    (/\ requests # <<>>
     /\ LastRequest.tool = "generate_playlist"
     /\ OnlyBlanks(LastRequest.arg)) =>
        /\ LastRequest.response = TextResponse("prompt required")
        /\ LastRequest.steps = <<>>
        /\ GlobalsNow = LastRequest.before

\* an authenticated user's whitespace-only prompt was rejected
C22_Witness ==
    /\ requests # <<>>
    /\ LastRequest.tool = "generate_playlist"
    /\ LastRequest.arg = "   "
    /\ LastRequest.before.client # 0
    /\ LastRequest.response = TextResponse("prompt required")

\* C23: without the catalog credentials in the environment the server never
\* comes to serve its tools, so no generate_playlist request is served
\* without them.
C23_NoServingWithoutCredentials ==
    /\ server = "serving" => env_credentials
    /\ \A i \in DOMAIN requests :
         requests[i].tool = "generate_playlist" => env_credentials

\* C24: every authenticate, handle_callback and generate_playlist call
\* returns a text response, whichever of the token request, the user lookup,
\* the token refresh, the prompt analysis or the playlist creation fails: no
\* exception leaves a tool.
C24_ToolsReturnText ==
    \A i \in DOMAIN requests :
        /\ requests[i].response.type = "text"
        /\ requests[i].response.message # ""

\* a token request was refused, a later one went through, and then the
\* prompt analysis and the playlist creation of a generate_playlist call
\* failed
C24_Witness ==
    /\ Len(requests) = 3
    /\ requests[1].response = TextResponse("invalid authorization code")
    /\ requests[2].response = TextResponse("authentication successful, no user info")
    /\ requests[3].tool = "generate_playlist"
    /\ requests[3].steps = <<"analyze_prompt: analysis_error", "create_playlist">>
    /\ requests[3].response = TextResponse("error creating playlist")

\* the last tool call is a generate_playlist call with a prompt that is not
\* blank and a duration in 1..600
ValidGenerateRequest ==
    /\ requests # <<>>
    /\ LastRequest.tool = "generate_playlist"
    /\ ~OnlyBlanks(LastRequest.arg)
    /\ LastRequest.duration >= 1 /\ LastRequest.duration <= 600

\* C25: after a handle_callback that succeeded, a generate_playlist call with
\* a valid prompt and duration, against a catalog that answers every call,
\* returns the success response with the URL of the created playlist.
C25_DocumentedFlowCreatesPlaylist ==
    (/\ ValidGenerateRequest
     /\ upstream = "reliable"
     /\ LastRequest.before.client # 0
     /\ LastRequest.before.playlist_generator # NoGenerator) =>
        /\ LastRequest.response.message = "created playlist"
        /\ LastRequest.response.url # ""

\* C26: while client or playlist_generator is unset, a generate_playlist call
\* with a valid prompt and duration returns the authenticate-first response,
\* takes no step of the pipeline (no token refresh, no prompt analysis, no
\* call into the playlist generator, hence no search and no playlist), and
\* leaves client, token and playlist_generator as they were.
C26_GenerateRequiresAuthentication ==
    (/\ ValidGenerateRequest
     /\ \/ LastRequest.before.client = 0
        \/ LastRequest.before.playlist_generator = NoGenerator) =>
        /\ LastRequest.response = TextResponse("authenticate first")
        /\ Range(LastRequest.steps) \subseteq {"initialize_credentials"}
        /\ playlists = <<>>
        /\ client = LastRequest.before.client
        /\ token = LastRequest.before.token
        /\ playlist_generator = LastRequest.before.playlist_generator

\* a token request was refused, and the generate_playlist call that followed
\* was answered with the authenticate-first response
C26_Witness ==
    /\ ValidGenerateRequest
    /\ Len(requests) = 2
    /\ requests[1].tool = "handle_callback"
    /\ requests[1].steps = <<"request_user_token">>
    /\ requests[2].response = TextResponse("authenticate first")
    /\ client = 0

\* C27: once generate_playlist has refreshed the token, the client the
\* playlist generator searches through is the client built from the
\* refreshed token, in that request and in all later ones.
C27_GeneratorUsesRefreshedClient ==
    (\E i \in DOMAIN requests :
        /\ requests[i].tool = "generate_playlist"
        /\ requests[i].steps # <<>>
        /\ Head(requests[i].steps) = "refresh_user_token"
        /\ requests[i].response # TextResponse("token refresh failed")) =>
        /\ client = token
        /\ playlist_generator.spotify = client

(***************************************************************************)
(* SpotifyHandler on its own: a handler serving calls of its methods.      *)
(***************************************************************************)
MaxHandlerCalls == 3    \* calls made on the handler in SpecHandler

\* a call as its caller has seen it: whether the handler was authenticated
\* when it was made, and what it returned
HandlerCall(name, ret) ==
    [call |-> name, was_authenticated |-> IsAuthenticated, ret |-> ret]

\* the return value of authenticate_with_code: True after the token was
\* obtained and current_user() answered; False when either raised
AuthenticateWithCodeReturn(exchanged, user_answered) == exchanged /\ user_answered

\* authenticate_with_code(code): self.token is assigned when the token
\* request answers, self.client is built, then current_user() is called
CallAuthenticateWithCode ==
    /\ Len(fn_prev) < MaxHandlerCalls
    /\ \E exchanged \in CallAnswers :
         \E user_answered \in (IF exchanged THEN CallAnswers ELSE {FALSE}) :
            /\ IF exchanged
               THEN sp_token' = TRUE /\ sp_client' = TRUE
               ELSE UNCHANGED <<sp_token, sp_client>>
            /\ fn_ret' = AuthenticateWithCodeReturn(exchanged, user_answered)
            /\ fn_prev' = Append(fn_prev, HandlerCall("authenticate_with_code", fn_ret'))
    /\ fn_called' = "authenticate_with_code"
    /\ UNCHANGED <<app_client, model, world_vars, call_vars, run_vars, analyzer_vars,
                   server_vars, fn_tracks, fn_target, fn_model, fn_resp, fn_text>>

\* is_authenticated()
CallIsAuthenticated ==
    /\ Len(fn_prev) < MaxHandlerCalls
    /\ fn_ret' = IsAuthenticated
    /\ fn_prev' = Append(fn_prev, HandlerCall("is_authenticated", fn_ret'))
    /\ fn_called' = "is_authenticated"
    /\ UNCHANGED <<program_vars, fn_tracks, fn_target, fn_model, fn_resp, fn_text>>

\* search_tracks(query)
CallSearchTracks ==
    /\ Len(fn_prev) < MaxHandlerCalls
    /\ \E query \in Prompts :
         \E answered \in (IF HasSearchClient THEN CallAnswers ELSE {FALSE}) :
            /\ fn_ret' = SearchTracks(query, answered)
            /\ fn_prev' = Append(fn_prev, HandlerCall("search_tracks", fn_ret'))
    /\ fn_called' = "search_tracks"
    /\ UNCHANGED <<program_vars, fn_tracks, fn_target, fn_model, fn_resp, fn_text>>

\* a SpotifyHandler just built, with or without its app client
InitHandler ==
    /\ sp_client = FALSE /\ sp_token = FALSE /\ app_client \in BOOLEAN
    /\ model = FALSE
    /\ catalog \in Catalogs /\ upstream = "flaky" /\ playlists = <<>>
    /\ pc = "idle" /\ prompt = "" /\ duration_minutes = 0
    /\ search_queries = <<>> /\ ok = <<>> /\ all_tracks = <<>>
    /\ unique_tracks = <<>> /\ fb_issued = <<>> /\ fb_tracks = <<>>
    /\ selected_tracks = <<>> /\ result = NoResult
    /\ runs = <<>> /\ runs_left = 0
    /\ NoHelperCall
    /\ NoServer

NextHandler == CallAuthenticateWithCode \/ CallIsAuthenticated \/ CallSearchTracks

SpecHandler == InitHandler /\ [][NextHandler]_vars

\* C28: an authenticate_with_code call made on an unauthenticated handler
\* returns True exactly when the handler is authenticated afterwards: a
\* handler that returned False is not left authenticated.
C28_AuthResultMatchesState ==
    (/\ fn_called = "authenticate_with_code"
     /\ ~fn_prev[Len(fn_prev)].was_authenticated) =>
        (fn_ret <=> IsAuthenticated)

(***************************************************************************)
(* The order of the steps of create_playlist.                              *)
(***************************************************************************)
\* the playlist the running call created
CreatedPlaylist == playlists[Len(playlists)]

C30_SelectionFromCandidatesOnce ==
    fn_called = "_curate_playlist" =>
        /\ Range(fn_ret) \subseteq Range(fn_tracks)
        /\ \A i, j \in DOMAIN fn_ret : i # j => fn_ret[i] # fn_ret[j]

====
